---- MODULE Spec2Model ----
(***************************************************************************)
(* SlimTrie: the read-side query engine (Get, GetID, RangeGet, Search)     *)
(* over the bit-packed node representation, and Marshal / Unmarshal.       *)
(*                                                                         *)
(* A bitmap is modelled as a record [words, ones]: words is the length of  *)
(* its Words slice and ones is the set of positions of its 1-bits.         *)
(* A key is a sequence of bytes (0..255).                                  *)
(* Node ids, ordinals and bit positions are 0-based as in the source;      *)
(* sequences are 1-based, so an access to element k reads index k+1.       *)
(***************************************************************************)
EXTENDS Integers, Sequences, FiniteSets, TLC

VARIABLES
    keys,   \* the sorted key list K the index was built from (ghost)
    opt,    \* the build options (ghost)
    st,     \* the SlimTrie: [inner, vars]
    res,    \* the outcome of the last operation
    rd,     \* the concurrent readers: the local variables of each one's call
    qs      \* the querySession records the readers' calls allocated

vars == <<keys, opt, st, res, rd, qs>>

----------------------------------------------------------------------------
(* Bounds of the model *)

\* the largest number of keys an index is built from
MaxKeys == 3

\* the short nodes read lie within this many bits of the end of a 64-bit word
MaxShortSpan == 5

(* Program constants *)

innerSize == 17
bigInnerSize == 257
bigWordSize == 8
wordSize == 4

\* the width of a packed short inner node, and of the table that expands it
ShortSize == 4

\* the size of an encoded value, in units of the leaf byte pool
EncodedSize == 1

----------------------------------------------------------------------------
(* Generic helpers *)

Min(a, b) == IF a < b THEN a ELSE b

Pow2(n) == 2 ^ n

\* bits.OnesCount64 over a set of bit positions
OnesCount(s) == Cardinality(s)

\* the set of positions of the 1-bits of a non-negative integer below 2^w
BitsOf(x, w) == {b \in 0..(w - 1) : (x \div Pow2(b)) % 2 = 1}

RECURSIVE SetToSeq(_)
SetToSeq(S) ==
    IF S = {} THEN <<>>
    ELSE LET m == CHOOSE x \in S : \A y \in S : x <= y
         IN <<m>> \o SetToSeq(S \ {m})

RECURSIVE SumSeq(_)
SumSeq(s) == IF s = <<>> THEN 0 ELSE Head(s) + SumSeq(Tail(s))

Range(s) == {s[j] : j \in 1..Len(s)}

\* the index of the first element of s equal to x (0 when absent)
IndexOf(s, x) ==
    IF x \in Range(s) THEN CHOOSE j \in 1..Len(s) : s[j] = x /\ \A k \in 1..(j - 1) : s[k] # x
    ELSE 0

----------------------------------------------------------------------------
(* Keys: byte strings *)

\* key[from>>3:] of Go, from a byte offset
KeyTail(key, byteIdx) == SubSeq(key, byteIdx + 1, Len(key))

\* bit j of a byte string, most significant bit of a byte first
KeyBit(key, j) == (key[(j \div 8) + 1] \div Pow2(7 - (j % 8))) % 2

\* the bits [from, to) of a key
KeyBits(key, from, to) == [j \in 1..(to - from) |-> KeyBit(key, from + j - 1)]

\* bytes.Compare
BytesCompare(a, b) ==
    LET n == Min(Len(a), Len(b))
        d == {j \in 1..n : a[j] # b[j]}
    IN IF d = {}
       THEN IF Len(a) < Len(b) THEN -1 ELSE IF Len(a) > Len(b) THEN 1 ELSE 0
       ELSE LET f == CHOOSE j \in d : \A k \in d : j <= k
            IN IF a[f] < b[f] THEN -1 ELSE 1

KeyLess(a, b) == BytesCompare(a, b) = -1

RECURSIVE SortKeys(_)
SortKeys(S) ==
    IF S = {} THEN <<>>
    ELSE LET m == CHOOSE x \in S : \A y \in S \ {x} : KeyLess(x, y)
         IN <<m>> \o SortKeys(S \ {m})

\* the number of leading bits two keys share
CommonPrefixBits(a, b) ==
    LET n == 8 * Min(Len(a), Len(b))
        d == {j \in 0..(n - 1) : KeyBit(a, j) # KeyBit(b, j)}
    IN IF d = {} THEN n ELSE CHOOSE j \in d : \A k \in d : j <= k

----------------------------------------------------------------------------
(* Bit primitives (bitmap.Rank64, bitmap.Rank128, bitmap.Mask) *)

NilBM == [nil |-> TRUE, words |-> 0, ones |-> {}]

\* a bitmap of n bits: its Words slice has ceil(n/64) words
BM(n, ones) == [nil |-> FALSE, words |-> (n + 63) \div 64, ones |-> ones]

\* whether bit i lies in one of the words of the bitmap: reading Words[i>>6]
\* outside the slice is an index-out-of-range panic
InWords(bm, i) == i >= 0 /\ (i \div 64) < bm.words

\* rank: the number of 1-bits in [0, i), and the bit at i
Rank(bm, i) == Cardinality({p \in bm.ones : p < i})

BitAt(bm, i) == IF i \in bm.ones THEN 1 ELSE 0

\* bm & bitmap.Mask[i]: the bits of bm strictly below i
MaskBelow(bm, i) == {b \in bm : b < i}

----------------------------------------------------------------------------
(* Bit-string codec (bitstr.Len, bitstr.StrCmpUpto, decStep) *)

\* An inner prefix stored as full bits is modelled by the sequence of its
\* payload bits; bitstr.Len is the number of payload bits.
BitstrLen(prefix) == Len(prefix)

\* bitstr.StrCmpUpto(a, upto): compare the byte string a with the bit string
\* upto, looking at no more than Len(upto) bits of a.
StrCmpUpto(a, upto) ==
    LET n == Min(8 * Len(a), Len(upto))
        d == {j \in 1..n : KeyBit(a, j - 1) # upto[j]}
    IN IF d = {}
       THEN IF 8 * Len(a) < Len(upto) THEN -1 ELSE 0
       ELSE LET f == CHOOSE j \in d : \A k \in d : j <= k
            IN IF KeyBit(a, f - 1) < upto[f] THEN -1 ELSE 1

\* decStep: the bit length of a length-only prefix, held in the 2-byte entry
decStep(steps, ithPref) == steps[ithPref + 1]

----------------------------------------------------------------------------
(* The builder: NewSlimTrie(keys, values, opt).  Values are the positions  *)
(* of the keys: V[j] = j.                                                  *)

\* a short inner node has at most this many children
ShortMaxBits == 2

\* the packed codes with k 1-bits, in increasing order, for each k
ShortCodes ==
    [k \in 0..ShortSize |->
        SetToSeq({c \in 0..(Pow2(ShortSize) - 1) : Cardinality(BitsOf(c, ShortSize)) = k})]

Subset(s, e, f) == [keyStart |-> s, keyEnd |-> e, fromKeyBit |-> f]

NodeWordSize(o, nid) == IF o.Big /\ nid = 0 THEN bigWordSize ELSE wordSize

\* where the label word of an inner node starts: the first bit the keys of
\* the subset differ at, aligned down to the word size
WordStart(ks, sub, ws) ==
    LET p == CommonPrefixBits(ks[sub.keyStart], ks[sub.keyEnd])
    IN p - (p % ws)

\* the word of a key at bit i
KeyWord(key, i, ws) ==
    LET b == key[(i \div 8) + 1]
    IN IF ws = bigWordSize THEN b
       ELSE IF i % 8 < 4 THEN b \div 16 ELSE b % 16

\* the bitmap bit a key takes at an inner node: 0 when the key ends there
KeyLabel(key, wstart, ws) ==
    IF 8 * Len(key) = wstart THEN 0 ELSE 1 + KeyWord(key, wstart, ws)

NodeBitmap(ks, sub, ws) ==
    {KeyLabel(ks[j], WordStart(ks, sub, ws), ws) : j \in sub.keyStart..sub.keyEnd}

ChildSubsets(ks, sub, ws) ==
    LET wstart == WordStart(ks, sub, ws)
        labs == SetToSeq(NodeBitmap(ks, sub, ws))
    IN [t \in 1..Len(labs) |->
          LET js == {j \in sub.keyStart..sub.keyEnd : KeyLabel(ks[j], wstart, ws) = labs[t]}
          IN Subset(CHOOSE j \in js : \A k \in js : j <= k,
                    CHOOSE j \in js : \A k \in js : j >= k,
                    IF labs[t] = 0 THEN wstart ELSE wstart + ws)]

\* the breadth-first queue of key subsets: element nid+1 is node nid
RECURSIVE BuildQueue(_, _, _, _)
BuildQueue(ks, o, queue, nid) ==
    IF nid >= Len(queue) THEN queue
    ELSE LET sub == queue[nid + 1]
         IN IF sub.keyStart = sub.keyEnd
            THEN BuildQueue(ks, o, queue, nid + 1)
            ELSE BuildQueue(ks, o, queue \o ChildSubsets(ks, sub, NodeWordSize(o, nid)), nid + 1)

EmptySlim ==
    [NodeTypeBM |-> NilBM, Inners |-> NilBM, ShortBM |-> NilBM,
     ShortTable |-> <<>>, BigInnerCnt |-> 0, ShortSize |-> 0,
     InnerPrefixes |-> [nil |-> TRUE, EltCnt |-> 0, PresenceBM |-> NilBM,
                        PositionBM |-> FALSE, Prefixes |-> <<>>, Steps |-> <<>>],
     LeafPrefixes |-> [nil |-> TRUE, PresenceBM |-> NilBM, Prefixes |-> <<>>],
     Leaves |-> [nil |-> TRUE, Bytes |-> <<>>, FixedSize |-> 0,
                 PresenceBM |-> NilBM, N |-> 0, EltCnt |-> 0]]

NilVars == [nil |-> TRUE, BigInnerOffset |-> 0, ShortMinusInner |-> 0, ShortMask |-> {}]

\* SlimTrie.init: the constants derived from the packed data at load; the
\* 64-bit ShortMask is the set of its 1-bits
InitVars(ns) ==
    [nil |-> FALSE,
     BigInnerOffset |-> (bigInnerSize - innerSize) * ns.BigInnerCnt,
     ShortMinusInner |-> ns.ShortSize - innerSize,
     ShortMask |-> 0..(ns.ShortSize - 1)]

\* the one element of a singleton set
TheOne(S) == CHOOSE x \in S : TRUE

\* the inner nodes of the queue in id order, each with its word size, its
\* bitmap, the start of its label word and the first key below it
InnerNodes(ks, o, Q) ==
    LET ids == SetToSeq({nid \in 0..(Len(Q) - 1) : Q[nid + 1].keyStart < Q[nid + 1].keyEnd})
    IN [t \in 1..Len(ids) |->
          LET sub == Q[ids[t] + 1]
              w == NodeWordSize(o, ids[t])
          IN [id |-> ids[t], ws |-> w, bm |-> NodeBitmap(ks, sub, w),
              wstart |-> WordStart(ks, sub, w), fromBit |-> sub.fromKeyBit,
              key |-> ks[sub.keyStart]]]

\* the leaves of the queue in id order, each with its value and key tail
LeafNodes(ks, Q) ==
    LET ids == SetToSeq({nid \in 0..(Len(Q) - 1) : Q[nid + 1].keyStart = Q[nid + 1].keyEnd})
    IN [u \in 1..Len(ids) |->
          LET sub == Q[ids[u] + 1]
          IN [id |-> ids[u], val |-> sub.keyStart,
              tail |-> KeyTail(ks[sub.keyStart], sub.fromKeyBit \div 8)]]

\* the packed code of each inner node, -1 for a node that is not short: the
\* small bitmaps get codes by first appearance, as many of each size as there
\* are codes with that many 1-bits
NodeCodes(o, ins) ==
    LET cand == {t \in 1..Len(ins) : o.Short /\ ins[t].ws = wordSize
                                     /\ Cardinality(ins[t].bm) <= ShortMaxBits}
        D == {ins[t].bm : t \in cand}
        first(bm) == CHOOSE t \in cand : ins[t].bm = bm /\ \A u \in cand : ins[u].bm = bm => t <= u
        code(bm) ==
            LET k == Cardinality(bm)
                r == 1 + Cardinality({b2 \in D : Cardinality(b2) = k /\ first(b2) < first(bm)})
            IN IF r <= Len(ShortCodes[k]) THEN ShortCodes[k][r] ELSE -1
    IN [t \in 1..Len(ins) |-> IF t \in cand THEN code(ins[t].bm) ELSE -1]

\* the packed representation of the nodes
Pack(o, ins, lvs, codes) ==
    LET NI == Len(ins)
        NL == Len(lvs)
        sizes == [t \in 1..NI |-> IF ins[t].ws = bigWordSize THEN bigInnerSize
                                  ELSE IF codes[t] # -1 THEN ShortSize ELSE innerSize]
        withPrefix == SetToSeq({t \in 1..NI : ins[t].wstart > ins[t].fromBit})
        withTail == SetToSeq({u \in 1..NL : lvs[u].tail # <<>>})
    IN [NodeTypeBM |-> BM(NI + NL, {ins[t].id : t \in 1..NI}),
        Inners |-> BM(SumSeq(sizes),
                      UNION {{SumSeq(SubSeq(sizes, 1, t - 1)) + b :
                                b \in IF codes[t] # -1 THEN BitsOf(codes[t], ShortSize)
                                      ELSE ins[t].bm} : t \in 1..NI}),
        ShortBM |-> BM(NI, {t - 1 : t \in {u \in 1..NI : codes[u] # -1}}),
        ShortTable |-> [c \in 1..Pow2(ShortSize) |->
                          LET hit == {t \in 1..NI : codes[t] = c - 1}
                          IN IF hit = {} THEN {} ELSE ins[CHOOSE t \in hit : TRUE].bm],
        BigInnerCnt |-> Cardinality({t \in 1..NI : ins[t].ws = bigWordSize}),
        ShortSize |-> ShortSize,
        InnerPrefixes |->
            [nil |-> FALSE,
             EltCnt |-> Len(withPrefix),
             PresenceBM |-> BM(NI, {t - 1 : t \in Range(withPrefix)}),
             PositionBM |-> o.InnerPrefix,
             Prefixes |-> IF o.InnerPrefix
                          THEN [j \in 1..Len(withPrefix) |->
                                  LET n == ins[withPrefix[j]]
                                  IN KeyBits(n.key, n.fromBit - (n.fromBit % 8), n.wstart)]
                          ELSE <<>>,
             Steps |-> IF o.InnerPrefix THEN <<>>
                       ELSE [j \in 1..Len(withPrefix) |->
                               ins[withPrefix[j]].wstart - ins[withPrefix[j]].fromBit]],
        LeafPrefixes |->
            IF o.LeafPrefix
            THEN [nil |-> FALSE,
                  PresenceBM |-> BM(NL, {u - 1 : u \in Range(withTail)}),
                  Prefixes |-> [j \in 1..Len(withTail) |-> lvs[withTail[j]].tail]]
            ELSE [nil |-> TRUE, PresenceBM |-> NilBM, Prefixes |-> <<>>],
        Leaves |-> [nil |-> FALSE, Bytes |-> [u \in 1..NL |-> lvs[u].val],
                    FixedSize |-> EncodedSize, PresenceBM |-> BM(NL, 0..(NL - 1)),
                    N |-> NL, EltCnt |-> NL]]

BuildSlim(ks, o) ==
    TheOne({TheOne({TheOne({Pack(o, ins, LeafNodes(ks, Q), codes) :
                              codes \in {NodeCodes(o, ins)}}) :
                      ins \in {InnerNodes(ks, o, Q)}}) :
              Q \in {BuildQueue(ks, o, <<Subset(1, Len(ks), 0)>>, 0)}})

\* NewSlimTrie: an empty key list gives the empty trie
NewSlimTrie(ks, o) ==
    IF Len(ks) = 0
    THEN [inner |-> EmptySlim, vars |-> InitVars(EmptySlim)]
    ELSE LET ns == BuildSlim(ks, o) IN [inner |-> ns, vars |-> InitVars(ns)]

----------------------------------------------------------------------------
(* The query engine.  A panic of the Go code (index out of range, or the   *)
(* explicit panic of getLeaf) is the value of the field "panic": "" when   *)
(* there was none.  The ghost field "decoded" counts the getNode calls.    *)

NoPanic == ""
IndexPanic == "index out of range"
ImpossiblePanic == "impossible!!"
NilPanic == "nil pointer dereference"

\* &querySession{keyBitLen: l, key: key}
NewSession(key) ==
    [keyBitLen |-> 8 * Len(key), key |-> key,
     wordSize |-> 0, from |-> 0, to |-> 0, bm |-> {},
     isInner |-> 0, ithInner |-> 0,
     hasInnerPrefix |-> FALSE, innerPrefixLen |-> 0, innerPrefix |-> <<>>,
     ithLeaf |-> 0, hasLeafPrefix |-> FALSE, leafPrefix |-> <<>>,
     panic |-> NoPanic, decoded |-> 0]

Panicked(qr, what) == [qr EXCEPT !.panic = what]

\* getLeafIndex: (leaf ordinal, node type) of a node id
getLeafIndex(t, nodeid) ==
    LET ns == t.inner
    IN IF ~InWords(ns.NodeTypeBM, nodeid)
       THEN [leafI |-> 0, nodeType |-> 0, panic |-> IndexPanic]
       ELSE [leafI |-> nodeid - Rank(ns.NodeTypeBM, nodeid),
             nodeType |-> BitAt(ns.NodeTypeBM, nodeid), panic |-> NoPanic]

getLeafPrefix(t, nodeid, qr) ==
    LET ns == t.inner
        li == getLeafIndex(t, nodeid)
        q1 == [qr EXCEPT !.ithLeaf = li.leafI, !.hasLeafPrefix = FALSE]
        lp == ns.LeafPrefixes
    IN IF li.panic # NoPanic THEN Panicked(qr, li.panic)
       ELSE IF lp.nil THEN q1
       ELSE IF ~InWords(lp.PresenceBM, q1.ithLeaf) THEN Panicked(q1, IndexPanic)
       ELSE IF BitAt(lp.PresenceBM, q1.ithLeaf) = 0 THEN q1
       ELSE LET ithPref == Rank(lp.PresenceBM, q1.ithLeaf)
            IN IF ithPref >= Len(lp.Prefixes) THEN Panicked(q1, IndexPanic)
               ELSE [q1 EXCEPT !.hasLeafPrefix = TRUE,
                               !.leafPrefix = lp.Prefixes[ithPref + 1]]

\* the 64-bit word k of a bitmap, as the set of its 1-bit positions
WordOf(bm, k) == {p - 64 * k : p \in {x \in bm.ones : x \div 64 = k}}

ShiftRight(w, j) == {b - j : b \in {x \in w : x >= j}}

ShiftLeft(w, j) == {b + j : b \in {x \in w : x + j <= 63}}

\* the value of a word given by its 1-bits, all below 2^ShortSize
WordValue(w) == SumSeq([j \in 1..ShortSize |-> IF (j - 1) \in w THEN Pow2(j - 1) ELSE 0])

\* (mutant) the bits of the next word are not read
ShortCode_firstWordOnly(t, from, to) ==
    ShiftRight(WordOf(t.inner.Inners, from \div 64), from % 64) \cap t.vars.ShortMask

\* getNode, the branch of a short inner node: the packed code read from
\* Inners.Words at [from, from+ShortSize)
ShortCode(t, from, to) ==
    LET ns == t.inner
        j == from % 64
        w == WordOf(ns.Inners, from \div 64)
        w2 == WordOf(ns.Inners, to \div 64)
    IN IF j <= 64 - ns.ShortSize
       THEN ShiftRight(w, j) \cap t.vars.ShortMask
       ELSE ShiftRight(w, j) \cup (ShiftLeft(w2, 64 - j) \cap t.vars.ShortMask)

\* getNode: the fields of the query session a node id decodes to.  The
\* steps are written last to first: each is handed the session so far.
getNode(t, nodeId, qr) ==
    LET ns == t.inner
        v == t.vars
        ips == ns.InnerPrefixes
        \* the prefix, stored whole or as its length only
        Prefixed(q, ithPref) ==
            IF ips.PositionBM
            THEN IF ithPref >= Len(ips.Prefixes) THEN Panicked(q, IndexPanic)
                 ELSE [q EXCEPT !.innerPrefix = ips.Prefixes[ithPref + 1],
                                !.innerPrefixLen = BitstrLen(ips.Prefixes[ithPref + 1]),
                                !.hasInnerPrefix = TRUE]
            ELSE IF ithPref >= Len(ips.Steps) THEN Panicked(q, IndexPanic)
                 ELSE [q EXCEPT !.innerPrefixLen = decStep(ips.Steps, ithPref)]
        \* if this node has prefix
        Prefix(q) ==
            IF ips.nil THEN Panicked(q, NilPanic)
            ELSE IF ips.EltCnt > 0 /\ ~InWords(ips.PresenceBM, q.ithInner)
            THEN Panicked(q, IndexPanic)
            ELSE IF ips.EltCnt > 0 /\ BitAt(ips.PresenceBM, q.ithInner) # 0
            THEN Prefixed(q, Rank(ips.PresenceBM, q.ithInner))
            ELSE q
        \* qr.bm = ns.ShortTable[bm]
        Expanded(q, code) ==
            IF (\E b \in code : b >= ShortSize) \/ WordValue(code) >= Len(ns.ShortTable)
            THEN Panicked(q, IndexPanic)
            ELSE Prefix([q EXCEPT !.bm = ns.ShortTable[WordValue(code) + 1]])
        \* if this is a short node
        Short(q) ==
            IF \/ ~InWords(ns.Inners, q.from)
               \/ (q.from % 64) > 64 - ns.ShortSize /\ ~InWords(ns.Inners, q.to)
            THEN Panicked(q, IndexPanic)
            ELSE Expanded(q, ShortCode(t, q.from, q.to))
        Normal(q, ithShort, isShort) ==
            IF v.nil THEN Panicked(q, NilPanic)
            ELSE IF isShort # 0
            THEN Short([q EXCEPT
                          !.wordSize = wordSize,
                          !.from = v.BigInnerOffset + innerSize * q.ithInner
                                   + v.ShortMinusInner * ithShort,
                          !.to = v.BigInnerOffset + innerSize * q.ithInner
                                 + v.ShortMinusInner * ithShort + ns.ShortSize])
            ELSE Prefix([q EXCEPT
                           !.wordSize = wordSize,
                           !.from = v.BigInnerOffset + innerSize * q.ithInner
                                    + v.ShortMinusInner * ithShort,
                           !.to = v.BigInnerOffset + innerSize * q.ithInner
                                  + v.ShortMinusInner * ithShort + innerSize])
        Inner(q) ==
            IF q.ithInner < ns.BigInnerCnt
            THEN Prefix([q EXCEPT !.wordSize = bigWordSize,
                                  !.from = q.ithInner * bigInnerSize,
                                  !.to = q.ithInner * bigInnerSize + bigInnerSize])
            ELSE IF ~InWords(ns.ShortBM, q.ithInner) THEN Panicked(q, IndexPanic)
            ELSE Normal(q, Rank(ns.ShortBM, q.ithInner), BitAt(ns.ShortBM, q.ithInner))
        Typed(q) ==
            IF q.isInner = 0 THEN getLeafPrefix(t, nodeId, q) ELSE Inner(q)
    IN IF ~InWords(ns.NodeTypeBM, nodeId)
       THEN Panicked([qr EXCEPT !.innerPrefixLen = 0, !.hasInnerPrefix = FALSE,
                                !.decoded = qr.decoded + 1], IndexPanic)
       ELSE Typed([qr EXCEPT !.innerPrefixLen = 0, !.hasInnerPrefix = FALSE,
                             !.decoded = qr.decoded + 1,
                             !.ithInner = Rank(ns.NodeTypeBM, nodeId),
                             !.isInner = BitAt(ns.NodeTypeBM, nodeId)])

\* (mutant) the two nibbles of a byte taken low-first
getLabelIdxOfKey_lowNibbleFirst(qr, keyBitIdx) ==
    IF keyBitIdx < qr.keyBitLen
    THEN LET b == qr.key[(keyBitIdx \div 8) + 1]
         IN IF qr.wordSize = bigWordSize THEN 1 + b
            ELSE 1 + ((IF keyBitIdx % 8 >= 4 THEN b \div 16 ELSE b) % 16)
    ELSE 0

\* getLabelIdxOfKey: the index of the bitmap bit the key points to
getLabelIdxOfKey(qr, keyBitIdx) ==
    IF keyBitIdx < qr.keyBitLen
    THEN LET b == qr.key[(keyBitIdx \div 8) + 1]
         IN IF qr.wordSize = bigWordSize THEN 1 + b
            ELSE 1 + ((IF keyBitIdx % 8 < 4 THEN b \div 16 ELSE b) % 16)
    ELSE 0

\* (mutant) the rank taken up to and including the label bit
getLeftChildID_rankInclusive(t, qr, keyBitIdx) ==
    LET ns == t.inner
        Child(ithBit) ==
            IF qr.to - qr.from = ns.ShortSize
            THEN IF ~InWords(ns.Inners, qr.from)
                 THEN [id |-> 0, has |-> 0, panic |-> IndexPanic]
                 ELSE [id |-> Rank(ns.Inners, qr.from) + OnesCount(MaskBelow(qr.bm, ithBit + 1)),
                       has |-> IF ithBit \in qr.bm THEN 1 ELSE 0,
                       panic |-> NoPanic]
            ELSE IF ~InWords(ns.Inners, qr.from + ithBit)
                 THEN [id |-> 0, has |-> 0, panic |-> IndexPanic]
                 ELSE [id |-> Rank(ns.Inners, qr.from + ithBit + 1),
                       has |-> BitAt(ns.Inners, qr.from + ithBit),
                       panic |-> NoPanic]
    IN Child(getLabelIdxOfKey(qr, keyBitIdx))

\* getLeftChildID: (rank up to the label bit, whether the label bit is set)
getLeftChildID(t, qr, keyBitIdx) ==
    LET ns == t.inner
        Child(ithBit) ==
            IF qr.to - qr.from = ns.ShortSize
            THEN IF ~InWords(ns.Inners, qr.from)
                 THEN [id |-> 0, has |-> 0, panic |-> IndexPanic]
                 ELSE [id |-> Rank(ns.Inners, qr.from) + OnesCount(MaskBelow(qr.bm, ithBit)),
                       has |-> IF ithBit \in qr.bm THEN 1 ELSE 0,
                       panic |-> NoPanic]
            ELSE IF ~InWords(ns.Inners, qr.from + ithBit)
                 THEN [id |-> 0, has |-> 0, panic |-> IndexPanic]
                 ELSE [id |-> Rank(ns.Inners, qr.from + ithBit),
                       has |-> BitAt(ns.Inners, qr.from + ithBit),
                       panic |-> NoPanic]
    IN Child(getLabelIdxOfKey(qr, keyBitIdx))

----------------------------------------------------------------------------
(* Exact lookup *)

\* no child resolved in an iteration
NoChild == [id |-> -1, has |-> -1, panic |-> NoPanic]

\* (mutant) the loop is not left when the key ends at the child picked
GetIDStep_noBreakAtEnd(t, eqID, i, qr) ==
    LET Ret(ii, q, lc) ==
            [done |-> "return", eqID |-> -1, i |-> ii, qr |-> q, lc |-> lc]
        Brk(id, ii, q, lc) ==
            [done |-> "break", eqID |-> id, i |-> ii, qr |-> q, lc |-> lc]
        Child(q, i1, lc) ==
            IF lc.panic # NoPanic THEN Ret(i1, Panicked(q, lc.panic), lc)
            ELSE IF lc.has = 0 THEN Ret(i1, q, lc)
            ELSE [done |-> "continue", eqID |-> lc.id + 1, i |-> i1 + q.wordSize,
                  qr |-> q, lc |-> lc]
        Skipped(q, i1) ==
            IF i1 > q.keyBitLen THEN Ret(i1, q, NoChild)
            ELSE Child(q, i1, getLeftChildID(t, q, i1))
        Decoded(q) ==
            IF q.panic # NoPanic THEN Ret(i, q, NoChild)
            ELSE IF q.isInner = 0 THEN Brk(eqID, i, q, NoChild)
            ELSE IF q.hasInnerPrefix
            THEN IF (i \div 8) > Len(q.key) THEN Ret(i, Panicked(q, IndexPanic), NoChild)
                 ELSE IF StrCmpUpto(KeyTail(q.key, i \div 8), q.innerPrefix) # 0
                 THEN Ret(i, q, NoChild)
                 ELSE Skipped(q, (i - (i % 8)) + q.innerPrefixLen)
            ELSE Skipped(q, i + q.innerPrefixLen)
    IN Decoded(getNode(t, eqID, qr))

\* one iteration of the descent loop of GetID, from the node eqID at the bit
\* cursor i; done is "return" when the iteration returned -1 (or panicked),
\* "break" when it left the loop with eqID and "continue" when the loop goes
\* on.  The ghost field lc is what getLeftChildID gave in this iteration
GetIDStep(t, eqID, i, qr) ==
    LET Ret(ii, q, lc) ==
            [done |-> "return", eqID |-> -1, i |-> ii, qr |-> q, lc |-> lc]
        Brk(id, ii, q, lc) ==
            [done |-> "break", eqID |-> id, i |-> ii, qr |-> q, lc |-> lc]
        \* the child the label of the key points to
        Child(q, i1, lc) ==
            IF lc.panic # NoPanic THEN Ret(i1, Panicked(q, lc.panic), lc)
            ELSE IF lc.has = 0 THEN Ret(i1, q, lc)
            ELSE IF i1 = q.keyBitLen THEN Brk(lc.id + 1, i1, q, lc)
            ELSE [done |-> "continue", eqID |-> lc.id + 1, i |-> i1 + q.wordSize,
                  qr |-> q, lc |-> lc]
        \* the cursor moved past the prefix
        Skipped(q, i1) ==
            IF i1 > q.keyBitLen THEN Ret(i1, q, NoChild)
            ELSE Child(q, i1, getLeftChildID(t, q, i1))
        \* the node decoded
        Decoded(q) ==
            IF q.panic # NoPanic THEN Ret(i, q, NoChild)
            ELSE IF q.isInner = 0 THEN Brk(eqID, i, q, NoChild)
            ELSE IF q.hasInnerPrefix
            THEN IF (i \div 8) > Len(q.key) THEN Ret(i, Panicked(q, IndexPanic), NoChild)
                 ELSE IF StrCmpUpto(KeyTail(q.key, i \div 8), q.innerPrefix) # 0
                 THEN Ret(i, q, NoChild)
                 ELSE Skipped(q, (i - (i % 8)) + q.innerPrefixLen)
            ELSE Skipped(q, i + q.innerPrefixLen)
    IN Decoded(getNode(t, eqID, qr))

\* the descent loop of GetID: iterations until one returns or breaks
RECURSIVE GetIDLoop(_, _, _, _)
GetIDLoop(t, eqID, i, qr) ==
    LET Iterated(s) ==
            IF s.done = "continue" THEN GetIDLoop(t, s.eqID, s.i, s.qr) ELSE s
    IN Iterated(GetIDStep(t, eqID, i, qr))

\* (mutant) the leaf prefix is not compared with the key tail
GetIDTail_noCompare(t, w) ==
    LET qr == w.qr
        Res(id, pn) == [id |-> id, panic |-> pn, decoded |-> qr.decoded,
                        cursor |-> w.i, atLeaf |-> w.done = "break"]
    IN IF w.done = "return" THEN Res(-1, qr.panic)
       ELSE IF ~t.inner.LeafPrefixes.nil
       THEN IF w.i = qr.keyBitLen
            THEN IF qr.hasLeafPrefix THEN Res(-1, NoPanic) ELSE Res(w.eqID, NoPanic)
            ELSE IF ~qr.hasLeafPrefix THEN Res(-1, NoPanic)
            ELSE Res(w.eqID, NoPanic)
       ELSE Res(w.eqID, NoPanic)

\* (mutant) the tail compared is what follows the consumed bits, from the
\* next byte boundary
GetIDTail_tailAfterCursor(t, w) ==
    LET qr == w.qr
        Res(id, pn) == [id |-> id, panic |-> pn, decoded |-> qr.decoded,
                        cursor |-> w.i, atLeaf |-> w.done = "break"]
    IN IF w.done = "return" THEN Res(-1, qr.panic)
       ELSE IF ~t.inner.LeafPrefixes.nil
       THEN IF w.i = qr.keyBitLen
            THEN IF qr.hasLeafPrefix THEN Res(-1, NoPanic) ELSE Res(w.eqID, NoPanic)
            ELSE IF ~qr.hasLeafPrefix THEN Res(-1, NoPanic)
            ELSE IF ((w.i + 7) \div 8) > Len(qr.key) THEN Res(-1, IndexPanic)
            ELSE IF qr.leafPrefix # KeyTail(qr.key, (w.i + 7) \div 8) THEN Res(-1, NoPanic)
            ELSE Res(w.eqID, NoPanic)
       ELSE Res(w.eqID, NoPanic)

\* the leaf-prefix check of GetID after the descent, w being the outcome of
\* the loop: [id, panic, decoded, cursor, atLeaf]; cursor is the bit cursor i
\* when the function returns and atLeaf tells that the loop was left by break
GetIDTail(t, w) ==
    LET qr == w.qr
        key == qr.key
        i == w.i
        l == qr.keyBitLen
        Res(id, pn) == [id |-> id, panic |-> pn, decoded |-> qr.decoded,
                        cursor |-> i, atLeaf |-> w.done = "break"]
    IN IF w.done = "return" THEN Res(-1, qr.panic)
       ELSE IF ~t.inner.LeafPrefixes.nil
       THEN IF i = l
            THEN IF qr.hasLeafPrefix THEN Res(-1, NoPanic) ELSE Res(w.eqID, NoPanic)
            ELSE IF ~qr.hasLeafPrefix THEN Res(-1, NoPanic)
            ELSE IF (i \div 8) > Len(key) THEN Res(-1, IndexPanic)
            ELSE IF qr.leafPrefix # KeyTail(key, i \div 8) THEN Res(-1, NoPanic)
            ELSE Res(w.eqID, NoPanic)
       ELSE Res(w.eqID, NoPanic)

GetID(t, key) ==
    IF t.inner.NodeTypeBM.nil
    THEN [id |-> -1, panic |-> NoPanic, decoded |-> 0, cursor |-> 0, atLeaf |-> FALSE]
    ELSE GetIDTail(t, GetIDLoop(t, 0, 0, NewSession(key)))

\* getIthLeaf: the decoded value of the i-th leaf; <<>> is nil.  The leaf
\* bytes are the FixedSize units from ith * FixedSize; decoding fewer units
\* than a value takes is an index out of range
getIthLeaf(t, ith) ==
    LET ls == t.inner.Leaves
        from == ith * ls.FixedSize
    IN IF ls.nil THEN [val |-> <<>>, panic |-> NoPanic]
       ELSE IF ith < 0 \/ from + ls.FixedSize > Len(ls.Bytes) \/ ls.FixedSize < EncodedSize
       THEN [val |-> <<>>, panic |-> IndexPanic]
       ELSE [val |-> <<ls.Bytes[from + 1]>>, panic |-> NoPanic]

getLeaf(t, nodeid) ==
    LET Leaf(li) ==
            IF li.panic # NoPanic THEN [val |-> <<>>, panic |-> li.panic]
            ELSE IF li.nodeType = 1 THEN [val |-> <<>>, panic |-> ImpossiblePanic]
            ELSE getIthLeaf(t, li.leafI)
    IN Leaf(getLeafIndex(t, nodeid))

\* Get: the value and found, with what GetID gave
Get(t, key) ==
    LET Value(g, v) ==
            [val |-> v.val, found |-> v.panic = NoPanic, panic |-> v.panic, id |-> g]
        Got(g) ==
            IF g.panic # NoPanic
            THEN [val |-> <<>>, found |-> FALSE, panic |-> g.panic, id |-> g]
            ELSE IF g.id = -1
            THEN [val |-> <<>>, found |-> FALSE, panic |-> NoPanic, id |-> g]
            ELSE Value(g, getLeaf(t, g.id))
    IN Got(GetID(t, key))

----------------------------------------------------------------------------
(* Three-way search *)

\* (mutant) the leaf prefix is never compared
cmpLeafPrefix_ignored(t, tail, qr) == 0

cmpLeafPrefix(t, tail, qr) ==
    IF ~t.inner.LeafPrefixes.nil
    THEN BytesCompare(tail, IF qr.hasLeafPrefix THEN qr.leafPrefix ELSE <<>>)
    ELSE 0

\* (mutant) the descent to the smallest leaf follows the last child
RECURSIVE leftMost_followsLast(_, _, _)
leftMost_followsLast(t, idx, decoded) ==
    LET Decoded(qr) ==
            IF qr.panic # NoPanic
            THEN [id |-> idx, panic |-> qr.panic, decoded |-> decoded + 1]
            ELSE IF qr.isInner = 0
            THEN [id |-> idx, panic |-> NoPanic, decoded |-> decoded + 1]
            ELSE leftMost_followsLast(t, Rank(t.inner.Inners, qr.to - 1)
                                         + BitAt(t.inner.Inners, qr.to - 1),
                                      decoded + 1)
    IN Decoded(getNode(t, idx, NewSession(<<>>)))

\* leftMost / rightMost: [id, panic, decoded]
RECURSIVE leftMost(_, _, _)
leftMost(t, idx, decoded) ==
    LET Decoded(qr) ==
            IF qr.panic # NoPanic
            THEN [id |-> idx, panic |-> qr.panic, decoded |-> decoded + 1]
            ELSE IF qr.isInner = 0
            THEN [id |-> idx, panic |-> NoPanic, decoded |-> decoded + 1]
            ELSE IF ~InWords(t.inner.Inners, qr.from)
            THEN [id |-> idx, panic |-> IndexPanic, decoded |-> decoded + 1]
            ELSE leftMost(t, Rank(t.inner.Inners, qr.from) + 1, decoded + 1)
    IN Decoded(getNode(t, idx, NewSession(<<>>)))

\* (mutant) the descent to the greatest leaf follows the first child
rightMost_followsFirst(t, idx, decoded) == leftMost(t, idx, decoded)

RECURSIVE rightMost(_, _, _)
rightMost(t, idx, decoded) ==
    LET Decoded(qr) ==
            IF qr.panic # NoPanic
            THEN [id |-> idx, panic |-> qr.panic, decoded |-> decoded + 1]
            ELSE IF qr.isInner = 0
            THEN [id |-> idx, panic |-> NoPanic, decoded |-> decoded + 1]
            ELSE IF ~InWords(t.inner.Inners, qr.to - 1)
            THEN [id |-> idx, panic |-> IndexPanic, decoded |-> decoded + 1]
            ELSE rightMost(t, Rank(t.inner.Inners, qr.to - 1)
                              + BitAt(t.inner.Inners, qr.to - 1),
                           decoded + 1)
    IN Decoded(getNode(t, idx, NewSession(<<>>)))

\* (mutant) one more is added for the root
chID_plusOne(leftChild, has) == leftChild + has + 1

\* chID: the id of the child node if the branch bit is set, otherwise the
\* id of the left child
chID(leftChild, has) == leftChild + has

\* one iteration of the descent loop of searchID; done is "break" when the
\* loop is left and "continue" when it goes on
searchStep(t, lID, eqID, rID, i, qr) ==
    LET ns == t.inner
        Out(a, b, c, ii, q, lf, lc) ==
            [done |-> "break", lID |-> a, eqID |-> b, rID |-> c, i |-> ii, qr |-> q,
             atLeaf |-> lf, lc |-> lc]
        \* the branch taken, l2 and r2 being the neighbours known now
        Branch(q, i1, lc, l2, r2) ==
            IF lc.has = 0 THEN Out(l2, -1, r2, i1, q, FALSE, lc)
            ELSE IF i1 = q.keyBitLen THEN Out(l2, chID(lc.id, lc.has), r2, i1, q, FALSE, lc)
            ELSE [done |-> "continue", lID |-> l2, eqID |-> chID(lc.id, lc.has), rID |-> r2,
                  i |-> i1 + q.wordSize, qr |-> q, atLeaf |-> FALSE, lc |-> lc]
        \* the siblings of the child that lie among the children of the node
        Neighbours(q, i1, lc, leftMostChild, rightMostChild) ==
            Branch(q, i1, lc,
                   IF lc.id >= leftMostChild /\ lc.id <= rightMostChild
                   THEN lc.id ELSE lID,
                   IF chID(lc.id, lc.has) + 1 >= leftMostChild
                      /\ chID(lc.id, lc.has) + 1 <= rightMostChild
                   THEN chID(lc.id, lc.has) + 1 ELSE rID)
        Child(q, i1, lc) ==
            IF lc.panic # NoPanic
            THEN Out(lID, eqID, rID, i1, Panicked(q, lc.panic), FALSE, lc)
            ELSE IF ~InWords(ns.Inners, q.from) \/ ~InWords(ns.Inners, q.to - 1)
            THEN Out(lID, eqID, rID, i1, Panicked(q, IndexPanic), FALSE, lc)
            ELSE Neighbours(q, i1, lc,
                            Rank(ns.Inners, q.from) + 1,
                            Rank(ns.Inners, q.to - 1) + BitAt(ns.Inners, q.to - 1))
        Pick(q, i1) == Child(q, i1, getLeftChildID(t, q, i1))
        \* the prefix of the node compared with the key
        Compared(q, r) ==
            IF r = 0 THEN Pick(q, (i - (i % 8)) + q.innerPrefixLen)
            ELSE IF r < 0 THEN Out(lID, -1, eqID, i, q, FALSE, NoChild)
            ELSE Out(eqID, -1, rID, i, q, FALSE, NoChild)
        \* the node decoded
        Decoded(q) ==
            IF q.panic # NoPanic THEN Out(lID, eqID, rID, i, q, FALSE, NoChild)
            ELSE IF q.isInner = 0 THEN Out(lID, eqID, rID, i, q, TRUE, NoChild)
            ELSE IF q.hasInnerPrefix
            THEN IF (i \div 8) > Len(q.key)
                 THEN Out(lID, eqID, rID, i, Panicked(q, IndexPanic), FALSE, NoChild)
                 ELSE Compared(q, StrCmpUpto(KeyTail(q.key, i \div 8), q.innerPrefix))
            ELSE IF i + q.innerPrefixLen > q.keyBitLen
                 THEN Out(lID, -1, eqID, i + q.innerPrefixLen, q, FALSE, NoChild)
                 ELSE Pick(q, i + q.innerPrefixLen)
    IN Decoded(getNode(t, eqID, qr))

\* the descent loop of searchID: iterations until one breaks
RECURSIVE searchLoop(_, _, _, _, _, _)
searchLoop(t, lID, eqID, rID, i, qr) ==
    LET Iterated(s) ==
            IF s.done = "continue"
            THEN searchLoop(t, s.lID, s.eqID, s.rID, s.i, s.qr)
            ELSE s
    IN Iterated(searchStep(t, lID, eqID, rID, i, qr))

\* searchID after the loop, w being its outcome: the leaf-prefix
\* reconciliation and the descents to the neighbour leaves
searchIDTail(t, key, w) ==
    LET None == [id |-> -1, panic |-> NoPanic, decoded |-> 0]
        Res(a, b, c, pn, dec) ==
            [lID |-> a, eqID |-> b, rID |-> c, panic |-> pn, decoded |-> dec,
             cursor |-> w.i, atLeaf |-> w.atLeaf]
        \* the neighbours drilled down to leaves
        Drilled(a, b, c, lm, rm) ==
            IF lm.panic # NoPanic
            THEN Res(a, b, c, lm.panic, w.qr.decoded + lm.decoded)
            ELSE Res(lm.id, b, rm.id, rm.panic,
                     w.qr.decoded + lm.decoded + rm.decoded)
        Drill(a, b, c) ==
            Drilled(a, b, c,
                    IF a # -1 THEN rightMost(t, a, 0) ELSE None,
                    IF c # -1 THEN leftMost(t, c, 0) ELSE None)
        \* the leaf prefix compared with the tail of the key
        Compared(r) ==
            Drill(IF r = 1 THEN w.eqID ELSE w.lID,
                  IF r # 0 THEN -1 ELSE w.eqID,
                  IF r = -1 THEN w.eqID ELSE w.rID)
    IN IF w.qr.panic # NoPanic
       THEN Res(w.lID, w.eqID, w.rID, w.qr.panic, w.qr.decoded)
       ELSE IF w.eqID # -1 /\ w.i <= w.qr.keyBitLen /\ (w.i \div 8) > Len(key)
       THEN Res(w.lID, w.eqID, w.rID, IndexPanic, w.qr.decoded)
       ELSE Compared(IF w.eqID # -1 /\ w.i <= w.qr.keyBitLen
                     THEN cmpLeafPrefix(t, KeyTail(key, w.i \div 8), w.qr)
                     ELSE 0)

\* searchID after the nil check: the descent and what follows it
searchIDDescend(t, key) ==
    searchIDTail(t, key, searchLoop(t, -1, 0, -1, 0, NewSession(key)))

\* (mutant) no check for the empty trie
searchID_noNilCheck(t, key) == searchIDDescend(t, key)

\* searchID: [lID, eqID, rID, panic, decoded, cursor, atLeaf]
searchID(t, key) ==
    IF t.inner.NodeTypeBM.nil
    THEN [lID |-> -1, eqID |-> -1, rID |-> -1, panic |-> NoPanic, decoded |-> 0,
          cursor |-> 0, atLeaf |-> FALSE]
    ELSE searchIDDescend(t, key)

\* RangeGet and Search: the values returned, with the ids searchID gave
\* (mutant) the value of the right neighbour is returned for a key between
\* two ranges
RangeGet_rightNeighbour(t, key) ==
    LET Value(s, v) ==
            [val |-> v.val, found |-> v.panic = NoPanic, panic |-> v.panic, ids |-> s]
        Found(s) ==
            IF s.panic # NoPanic
            THEN [val |-> <<>>, found |-> FALSE, panic |-> s.panic, ids |-> s]
            ELSE IF s.eqID # -1 THEN Value(s, getLeaf(t, s.eqID))
            ELSE IF s.rID = -1
            THEN [val |-> <<>>, found |-> FALSE, panic |-> NoPanic, ids |-> s]
            ELSE Value(s, getLeaf(t, s.rID))
    IN Found(searchID(t, key))

\* (mutant) the left neighbour is read without the check for lID = -1
RangeGet_noLIDCheck(t, key) ==
    LET Value(s, v) ==
            [val |-> v.val, found |-> v.panic = NoPanic, panic |-> v.panic, ids |-> s]
        Found(s) ==
            IF s.panic # NoPanic
            THEN [val |-> <<>>, found |-> FALSE, panic |-> s.panic, ids |-> s]
            ELSE IF s.eqID # -1 THEN Value(s, getLeaf(t, s.eqID))
            ELSE Value(s, getLeaf(t, s.lID))
    IN Found(searchID(t, key))

RangeGet(t, key) ==
    LET Value(s, v) ==
            [val |-> v.val, found |-> v.panic = NoPanic, panic |-> v.panic, ids |-> s]
        Found(s) ==
            IF s.panic # NoPanic
            THEN [val |-> <<>>, found |-> FALSE, panic |-> s.panic, ids |-> s]
            ELSE IF s.eqID # -1 THEN Value(s, getLeaf(t, s.eqID))
            ELSE IF s.lID = -1
            THEN [val |-> <<>>, found |-> FALSE, panic |-> NoPanic, ids |-> s]
            ELSE Value(s, getLeaf(t, s.lID))
    IN Found(searchID(t, key))

Search(t, key) ==
    LET None == [val |-> <<>>, panic |-> NoPanic]
        Values(s, lv, ev, rv) ==
            [lVal |-> lv.val, eqVal |-> ev.val, rVal |-> rv.val,
             panic |-> IF lv.panic # NoPanic THEN lv.panic
                       ELSE IF ev.panic # NoPanic THEN ev.panic ELSE rv.panic,
             ids |-> s]
        Found(s) ==
            IF s.panic # NoPanic
            THEN [lVal |-> <<>>, eqVal |-> <<>>, rVal |-> <<>>, panic |-> s.panic, ids |-> s]
            ELSE Values(s, IF s.lID # -1 THEN getLeaf(t, s.lID) ELSE None,
                           IF s.eqID # -1 THEN getLeaf(t, s.eqID) ELSE None,
                           IF s.rID # -1 THEN getLeaf(t, s.rID) ELSE None)
    IN Found(searchID(t, key))

----------------------------------------------------------------------------
(* Marshalling.  A serialized buffer is a header (readable or not, with   *)
(* the version of the writer) and a body: the protobuf fields of the       *)
(* packed data, the three arrays written before 0.5.10, or a body cut      *)
(* short.                                                                  *)

NoErr == ""
ErrIncompatible == "incompatible with marshaled data"
ErrHeader == "failed to unmarshal header"
ErrInner == "failed to unmarshal inner"
ErrChildren == "failed to unmarshal children"

Version(major, minor, patch) == <<major, minor, patch>>

VerLess(a, b) ==
    \/ a[1] < b[1]
    \/ a[1] = b[1] /\ a[2] < b[2]
    \/ a[1] = b[1] /\ a[2] = b[2] /\ a[3] < b[3]

slimtrieVersion == Version(0, 5, 12)

\* vers.IsCompatible(ver, st.compatibleVersions()): the initial version
\* 1.0.0 and every version up to the receiver's own
IsCompatible(ver) ==
    ver = Version(1, 0, 0) \/ ver = slimtrieVersion \/ VerLess(ver, slimtrieVersion)

\* the fields of Slim in the order of their field numbers
SlimFields ==
    <<"NodeTypeBM", "Inners", "ShortBM", "ShortTable", "BigInnerCnt", "ShortSize",
      "InnerPrefixes", "LeafPrefixes", "Leaves">>

\* protobuf encoding: the fields that differ from their zero value, tagged
ProtoEncode(ns) ==
    LET present == SelectSeq(SlimFields, LAMBDA f : ns[f] # EmptySlim[f])
    IN [k \in 1..Len(present) |-> [tag |-> present[k], val |-> ns[present[k]]]]

\* protobuf decoding: a field not in the message keeps its zero value
ProtoDecode(fields) ==
    [f \in DOMAIN EmptySlim |->
        IF \E k \in 1..Len(fields) : fields[k].tag = f
        THEN fields[CHOOSE k \in 1..Len(fields) : fields[k].tag = f].val
        ELSE EmptySlim[f]]

Buf(ok, ver, body) == [header |-> [ok |-> ok, version |-> ver], body |-> body]

\* Marshal: the header with the version of this code, then st.inner
Marshal(t) ==
    [buf |-> Buf(TRUE, slimtrieVersion, [kind |-> "slim", fields |-> ProtoEncode(t.inner)]),
     err |-> NoErr]

----------------------------------------------------------------------------
(* Formats of older versions *)

BytesToBits(bs) == [j \in 1..(8 * Len(bs)) |-> KeyBit(bs, j - 1)]

BitsToBytes(bits) ==
    [k \in 1..(Len(bits) \div 8) |->
        SumSeq([i \in 1..8 |-> bits[8 * (k - 1) + i] * Pow2(8 - i)])]

TrailingZeros8(b) ==
    IF b = 0 THEN 8 ELSE CHOOSE n \in 0..7 : b % Pow2(n + 1) = Pow2(n)

\* an inner prefix as written before 0.5.12: a control byte, then the text;
\* control bit 0 says the last text byte ends in a 1 and zeros after the
\* prefix bits
ToBefore000512Prefix(bits) ==
    IF Len(bits) % 8 = 0
    THEN <<0>> \o BitsToBytes(bits)
    ELSE <<1>> \o BitsToBytes(bits \o <<1>> \o [i \in 1..(7 - (Len(bits) % 8)) |-> 0])

\* the data of a trie as versions 0.5.10 and 0.5.11 wrote it: the inner
\* prefixes in the control-byte layout, of the leaves only the bytes
MarshalBefore000512(t, ver) ==
    LET ns == t.inner
        ips == ns.InnerPrefixes
        old == [ns EXCEPT
                  !.InnerPrefixes.Prefixes =
                      IF ~ips.nil /\ ips.PositionBM
                      THEN [j \in DOMAIN ips.Prefixes |-> ToBefore000512Prefix(ips.Prefixes[j])]
                      ELSE ips.Prefixes,
                  !.Leaves = IF ns.Leaves.nil THEN ns.Leaves
                             ELSE [nil |-> FALSE, Bytes |-> ns.Leaves.Bytes, FixedSize |-> 0,
                                   PresenceBM |-> NilBM, N |-> 0, EltCnt |-> 0]]
    IN Buf(TRUE, ver, [kind |-> "slim", fields |-> ProtoEncode(old)])

before000512InnerPrefixTobitstr(ns) ==
    LET ips == ns.InnerPrefixes
        newPref(old) ==
            LET pl == Len(old) - 1
                bitLen == IF old[1] % 2 = 0 THEN pl * 8
                          ELSE pl * 8 - TrailingZeros8(old[pl + 1]) - 1
            IN SubSeq(BytesToBits(Tail(old)), 1, bitLen)
    IN IF ~ips.nil /\ ips.PositionBM /\ Len(ips.Prefixes) > 0
       THEN [ns EXCEPT !.InnerPrefixes.Prefixes =
                          [j \in DOMAIN ips.Prefixes |-> newPref(ips.Prefixes[j])]]
       ELSE ns

\* before000512FixLeafSize panics on a FixedSize without a PresenceBM
FixLeafSizePanics(ns) ==
    ~ns.Leaves.nil /\ ns.Leaves.PresenceBM.nil /\ ns.Leaves.FixedSize # 0

before000512FixLeafSize(ns) ==
    LET leaves == ns.Leaves
        n == Len(leaves.Bytes) \div EncodedSize
    IN IF leaves.nil THEN ns
       ELSE IF leaves.PresenceBM.nil
       THEN [ns EXCEPT !.Leaves = [nil |-> FALSE, Bytes |-> leaves.Bytes,
                                   FixedSize |-> EncodedSize,
                                   PresenceBM |-> BM(n, 0..(n - 1)),
                                   N |-> n, EltCnt |-> n]]
       ELSE ns

\* the build options of the conversion: steps only, no big inner node
Before000510Opt == [InnerPrefix |-> FALSE, LeafPrefix |-> FALSE, Big |-> FALSE, Short |-> TRUE]

\* the arrays written before 0.5.10, of the trie of a key list: an array is
\* the set of the ids it holds (Bitmaps) and its elements in id order.  Ids
\* are breadth-first; a key that ends at an inner node is the value of that
\* node; a step counts 4-bit words, the label word included.  Children
\* written before 0.5.4 are 32-bit Elts (bitmap and rank), later 16-bit BMElts
MarshalBefore000510(ks, ver, isBitmap) ==
    LET Body(ins, lvs, terms, stepped, valued, valuedIds) ==
            [kind |-> "arrays",
             ch |-> [Bitmaps |-> {ins[t].id - Cardinality({x \in terms : x < ins[t].id}) :
                                    t \in 1..Len(ins)},
                     IsBitmap |-> isBitmap,
                     Elts |-> IF isBitmap THEN <<>>
                              ELSE [t \in 1..Len(ins) |->
                                      [bm |-> {b - 1 : b \in ins[t].bm \ {0}},
                                       rank |-> SumSeq([u \in 1..(t - 1) |->
                                                         Cardinality(ins[u].bm)])]],
                     BMElts |-> IF isBitmap
                                THEN [t \in 1..Len(ins) |-> {b - 1 : b \in ins[t].bm \ {0}}]
                                ELSE <<>>],
             steps |-> [Bitmaps |-> {ins[stepped[j]].id
                                       - Cardinality({x \in terms : x < ins[stepped[j]].id}) :
                                         j \in 1..Len(stepped)},
                        Elts |-> [j \in 1..Len(stepped) |->
                                    ((ins[stepped[j]].wstart - ins[stepped[j]].fromBit) \div 4) + 1]],
             lvs |-> [Bitmaps |-> Range(valuedIds),
                      Elts |-> [j \in 1..Len(valuedIds) |->
                                  (CHOOSE x \in valued : x.id = valuedIds[j]).val]]]
        \* the values by old id: those of the leaves that are no terminator,
        \* and at an inner node a key ends at, that of its terminator
        Valued(ins, lvs, terms, ends) ==
            Body(ins, lvs, terms,
                 SetToSeq({t \in 1..Len(ins) : ins[t].wstart > ins[t].fromBit}),
                 {[id |-> lvs[u].id - Cardinality({x \in terms : x < lvs[u].id}),
                   val |-> lvs[u].val] :
                     u \in {v \in 1..Len(lvs) : lvs[v].id \notin terms}}
                 \cup {[id |-> ins[e.t].id - Cardinality({x \in terms : x < ins[e.t].id}),
                        val |-> lvs[CHOOSE u \in 1..Len(lvs) : lvs[u].id = e.first].val] :
                          e \in ends},
                 SetToSeq({lvs[u].id - Cardinality({x \in terms : x < lvs[u].id}) :
                             u \in {v \in 1..Len(lvs) : lvs[v].id \notin terms}}
                          \cup {ins[e.t].id - Cardinality({x \in terms : x < ins[e.t].id}) :
                                  e \in ends}))
        \* the inner nodes a key ends at, with the id of their terminator leaf
        Ended(ins, lvs, ends) == Valued(ins, lvs, {e.first : e \in ends}, ends)
        Nodes(ins, lvs) ==
            Ended(ins, lvs,
                  {[t |-> t,
                    first |-> 1 + SumSeq([u \in 1..(t - 1) |-> Cardinality(ins[u].bm)])] :
                      t \in {u \in 1..Len(ins) : 0 \in ins[u].bm}})
        Queued(Q) == Nodes(InnerNodes(ks, Before000510Opt, Q), LeafNodes(ks, Q))
    IN Buf(TRUE, ver,
           Queued(BuildQueue(ks, Before000510Opt, <<Subset(1, Len(ks), 0)>>, 0)))

\* bmhas: bit i of an old bitmap, 0 past its end
bmhas(bm, i) == i \in bm

\* array Get: the element of a present id is found by its rank
ArrayGet(arr, i) == arr.Elts[Cardinality({j \in arr.Bitmaps : j < i}) + 1]

getStepBefore000510(steps, nid) ==
    IF bmhas(steps.Bitmaps, nid) THEN (ArrayGet(steps, nid) - 1) * 4 ELSE 0

\* the 16-bit bitmap of the children, shifted to leave bit 0 to the leaf
getBM16Child(ch, idx) ==
    LET eltIdx == Cardinality({j \in ch.Bitmaps : j < idx})
        bm == IF ~ch.IsBitmap THEN ch.Elts[eltIdx + 1].bm ELSE ch.BMElts[eltIdx + 1]
    IN {b + 1 : b \in bm}

eltType(oldid, step, leafOnly) == [oldid |-> oldid, step |-> step, leafOnly |-> leafOnly]

\* (mutant) the leaf-only node of an old inner node with a value is enqueued
\* after the children of its labels
RECURSIVE before000510Loop_leafLast(_, _, _, _)
before000510Loop_leafLast(ch, steps, lvs, c) ==
    IF c.newid >= Len(c.queue) THEN c
    ELSE LET qelt == c.queue[c.newid + 1]
             oldid == qelt.oldid
             hasInner == bmhas(ch.Bitmaps, oldid)
             hasLeaf == bmhas(lvs.Bitmaps, oldid)
             next == [c EXCEPT !.newid = @ + 1]
         IN IF qelt.leafOnly \/ (~hasInner /\ hasLeaf)
            THEN before000510Loop_leafLast(ch, steps, lvs,
                    [next EXCEPT !.leaves = Append(@, [id |-> c.newid,
                                                       val |-> ArrayGet(lvs, oldid),
                                                       tail |-> <<>>])])
            ELSE IF ~hasInner
            THEN before000510Loop_leafLast(ch, steps, lvs, next)
            ELSE LET bm == getBM16Child(ch, oldid)
                     n == Cardinality(bm)
                     leafElt == IF hasLeaf THEN <<eltType(oldid, 0, TRUE)>> ELSE <<>>
                     kids == [k \in 1..n |->
                                eltType(c.nextOldID + k - 1,
                                        getStepBefore000510(steps, c.nextOldID + k - 1),
                                        FALSE)]
                     bmidx == IF hasLeaf THEN bm \cup {0} ELSE bm
                 IN before000510Loop_leafLast(ch, steps, lvs,
                        [next EXCEPT !.queue = @ \o kids \o leafElt,
                                     !.nextOldID = @ + n,
                                     !.inners = Append(@, [id |-> c.newid, ws |-> wordSize,
                                                           bm |-> bmidx, wstart |-> qelt.step,
                                                           fromBit |-> 0, key |-> <<>>])])

\* the loop over the queue: c is the queue, the new id at its head, the next
\* old id, and the inner nodes and leaves handed to the creator so far
RECURSIVE before000510Loop(_, _, _, _)
before000510Loop(ch, steps, lvs, c) ==
    IF c.newid >= Len(c.queue) THEN c
    ELSE LET qelt == c.queue[c.newid + 1]
             oldid == qelt.oldid
             hasInner == bmhas(ch.Bitmaps, oldid)
             hasLeaf == bmhas(lvs.Bitmaps, oldid)
             next == [c EXCEPT !.newid = @ + 1]
         IN IF qelt.leafOnly \/ (~hasInner /\ hasLeaf)
            THEN before000510Loop(ch, steps, lvs,
                    [next EXCEPT !.leaves = Append(@, [id |-> c.newid,
                                                       val |-> ArrayGet(lvs, oldid),
                                                       tail |-> <<>>])])
            ELSE IF ~hasInner
            THEN before000510Loop(ch, steps, lvs, next)
            ELSE LET bm == getBM16Child(ch, oldid)
                     n == Cardinality(bm)
                     leafElt == IF hasLeaf THEN <<eltType(oldid, 0, TRUE)>> ELSE <<>>
                     kids == [k \in 1..n |->
                                eltType(c.nextOldID + k - 1,
                                        getStepBefore000510(steps, c.nextOldID + k - 1),
                                        FALSE)]
                     bmidx == IF hasLeaf THEN bm \cup {0} ELSE bm
                 IN before000510Loop(ch, steps, lvs,
                        [next EXCEPT !.queue = @ \o leafElt \o kids,
                                     !.nextOldID = @ + n,
                                     !.inners = Append(@, [id |-> c.newid, ws |-> wordSize,
                                                           bm |-> bmidx, wstart |-> qelt.step,
                                                           fromBit |-> 0, key |-> <<>>])])

\* before000510ToNewChildrenArray: the inner data rebuilt by the creator
\* from the nodes of the queue, and the constants initialised from it
before000510ToNewChildrenArray(t, ver, ch, steps, lvs) ==
    LET c == TheOne({before000510Loop(ch, steps, lvs,
                        [queue |-> <<eltType(0, getStepBefore000510(steps, 0), FALSE)>>,
                         newid |-> 0, nextOldID |-> 1, inners |-> <<>>, leaves |-> <<>>])})
        build(cc) == Pack(Before000510Opt, cc.inners, cc.leaves,
                          NodeCodes(Before000510Opt, cc.inners))
        loaded(ns) == [inner |-> ns, vars |-> InitVars(ns)]
    IN IF ver = Version(1, 0, 0) \/ VerLess(ver, Version(0, 5, 10))
       THEN TheOne({loaded(ns) : ns \in {build(c)}})
       ELSE t

before000510(t, ver, ch, steps, lvs) ==
    IF ~(ver = Version(1, 0, 0) \/ VerLess(ver, Version(0, 5, 10)))
    THEN t
    ELSE before000510ToNewChildrenArray(t, ver, ch, steps, lvs)

----------------------------------------------------------------------------
(* Unmarshal *)

\* (mutant) the version of this code is not among them
SharesInnerFormat_before000512(ver) == ver \in {Version(0, 5, 10), Version(0, 5, 11)}

\* vers.Check(ver, slimtrieVersion, "==0.5.10", "==0.5.11"): the versions
\* that share the protobuf format of the packed data
SharesInnerFormat(ver) ==
    ver \in {slimtrieVersion, Version(0, 5, 10), Version(0, 5, 11)}

Loaded(t, err, decoded, panic) == [st |-> t, err |-> err, decoded |-> decoded, panic |-> panic]

\* the part of Unmarshal after the version check: t holds the fresh empty
\* inner data.  The ghost "decoded" says that the body was read.
UnmarshalBody(t, buf) ==
    LET ver == buf.header.version
    IN IF SharesInnerFormat(ver)
       THEN IF buf.body.kind # "slim"
            THEN Loaded(t, ErrInner, TRUE, NoPanic)
            ELSE LET dec == ProtoDecode(buf.body.fields)
                     fix == VerLess(ver, Version(0, 5, 12))
                     ns == IF fix
                           THEN before000512FixLeafSize(before000512InnerPrefixTobitstr(dec))
                           ELSE dec
                 IN IF fix /\ FixLeafSizePanics(dec)
                    THEN Loaded([t EXCEPT !.inner = before000512InnerPrefixTobitstr(dec)],
                                NoErr, TRUE, ImpossiblePanic)
                    ELSE Loaded([inner |-> ns, vars |-> InitVars(ns)], NoErr, TRUE, NoPanic)
       ELSE IF buf.body.kind # "arrays"
            THEN Loaded(t, ErrChildren, TRUE, NoPanic)
            ELSE Loaded(before000510(t, ver, buf.body.ch, buf.body.steps, buf.body.lvs),
                        NoErr, TRUE, NoPanic)

\* (mutant) the version is not checked against the compatible versions
Unmarshal_noVersionCheck(t, buf) ==
    IF ~buf.header.ok
    THEN Loaded([t EXCEPT !.inner = EmptySlim], ErrHeader, FALSE, NoPanic)
    ELSE UnmarshalBody([t EXCEPT !.inner = EmptySlim], buf)

\* (mutant) the receiver is kept when the header or its version is refused
Unmarshal_keepsOnFailure(t, buf) ==
    IF ~buf.header.ok
    THEN Loaded(t, ErrHeader, FALSE, NoPanic)
    ELSE IF ~IsCompatible(buf.header.version)
    THEN Loaded(t, ErrIncompatible, FALSE, NoPanic)
    ELSE UnmarshalBody([t EXCEPT !.inner = EmptySlim], buf)

\* Unmarshal: st.inner is replaced by a fresh Slim first, then the header is
\* read and its version checked, then the body is decoded
Unmarshal(t, buf) ==
    LET fresh == [t EXCEPT !.inner = EmptySlim]
    IN IF ~buf.header.ok
       THEN Loaded(fresh, ErrHeader, FALSE, NoPanic)
       ELSE IF ~IsCompatible(buf.header.version)
       THEN Loaded(fresh, ErrIncompatible, FALSE, NoPanic)
       ELSE UnmarshalBody(fresh, buf)

\* Reset: empty inner data and no constants
Reset(t) == [inner |-> EmptySlim, vars |-> NilVars]

----------------------------------------------------------------------------
(* The state machine *)

\* the byte strings keys and queries are drawn from: "", "a", "aa", "ab",
\* "abq", "aq", "b", "q", "qa" with a = 0x61, b = 0x62, q = 0x71
KeyUniverse ==
    {<<>>, <<97>>, <<97, 97>>, <<97, 98>>, <<97, 98, 113>>, <<97, 113>>,
     <<98>>, <<113>>, <<113, 97>>}

\* Opt of NewSlimTrie: InnerPrefix and LeafPrefix as in the source (Complete
\* is both); Big makes the root an 8-bit node, Short packs small nodes
Opts == [InnerPrefix : BOOLEAN, LeafPrefix : BOOLEAN, Big : BOOLEAN, Short : BOOLEAN]

Complete(o) == o.InnerPrefix /\ o.LeafPrefix

Idle == [op |-> "idle"]

\* the concurrent callers of the queries, and a caller outside of a call
Readers == {"r1", "r2"}

IdleReader == [pc |-> "idle"]

Init ==
    /\ keys \in {SortKeys(S) : S \in {T \in SUBSET KeyUniverse : Cardinality(T) <= MaxKeys}}
    /\ opt \in Opts
    /\ st = NewSlimTrie(keys, opt)
    /\ res = Idle
    /\ rd = [r \in Readers |-> IdleReader]
    /\ qs = [r \in Readers |-> NewSession(<<>>)]

\* A caller makes one call at a time: a call is made when no result is
\* pending, and Return hands the result over.
CallGetID(q) ==
    /\ res = Idle
    /\ res' = [op |-> "GetID", key |-> q, out |-> GetID(st, q)]
    /\ UNCHANGED <<keys, opt, st, rd, qs>>

CallGet(q) ==
    /\ res = Idle
    /\ res' = [op |-> "Get", key |-> q, out |-> Get(st, q)]
    /\ UNCHANGED <<keys, opt, st, rd, qs>>

CallRangeGet(q) ==
    /\ res = Idle
    /\ res' = [op |-> "RangeGet", key |-> q, out |-> RangeGet(st, q)]
    /\ UNCHANGED <<keys, opt, st, rd, qs>>

CallSearch(q) ==
    /\ res = Idle
    /\ res' = [op |-> "Search", key |-> q, out |-> Search(st, q)]
    /\ UNCHANGED <<keys, opt, st, rd, qs>>

CallMarshal ==
    /\ res = Idle
    /\ res' = [op |-> "Marshal", out |-> Marshal(st)]
    /\ UNCHANGED <<keys, opt, st, rd, qs>>

\* versions newer than this code
NewerVersions == {Version(0, 5, 13), Version(0, 6, 0), Version(2, 0, 0)}

\* the buffers a caller may hand to Unmarshal besides the one Marshal just
\* returned: one whose header cannot be read, one cut short after the
\* header, the data of this index as a newer version or as an older version
\* wrote it
ForeignBufs ==
    {Buf(FALSE, Version(0, 0, 0), [kind |-> "cut"]),
     Buf(TRUE, slimtrieVersion, [kind |-> "cut"])}
    \cup {Buf(TRUE, v, Marshal(st).buf.body) : v \in NewerVersions}
    \cup {MarshalBefore000512(st, v) : v \in {Version(0, 5, 10), Version(0, 5, 11)}}
    \cup (IF Len(keys) > 0
          THEN {MarshalBefore000510(keys, Version(0, 5, 9), TRUE),
                MarshalBefore000510(keys, Version(1, 0, 0), FALSE)}
          ELSE {})

\* Unmarshal of the buffer Marshal just returned, or of a foreign one when
\* no result is pending.  The key
\* list is that of the loaded data: none when Unmarshal fails; data written
\* before 0.5.10 is loaded with the options of the conversion.  The result
\* records the number of keys the receiver held when Unmarshal was called.
UnmarshalBufs ==
    IF res = Idle THEN ForeignBufs
    ELSE IF res.op = "Marshal" /\ res.out.err = NoErr THEN {res.out.buf}
    ELSE {}

CallUnmarshal(buf) ==
    /\ buf \in UnmarshalBufs
    /\ \E u \in {Unmarshal(st, buf)} :
          /\ st' = u.st
          /\ res' = [op |-> "Unmarshal", buf |-> buf, held |-> Len(keys),
                     out |-> [err |-> u.err, decoded |-> u.decoded, panic |-> u.panic]]
          /\ keys' = IF u.err = NoErr /\ u.panic = NoPanic THEN keys ELSE <<>>
          /\ opt' = IF u.err = NoErr /\ buf.body.kind = "arrays" THEN Before000510Opt ELSE opt
          /\ UNCHANGED <<rd, qs>>

CallReset ==
    /\ res = Idle
    /\ st' = Reset(st)
    /\ keys' = <<>>
    /\ res' = [op |-> "Reset"]
    /\ UNCHANGED <<opt, rd, qs>>

Return ==
    /\ res # Idle
    /\ res' = Idle
    /\ UNCHANGED <<keys, opt, st, rd, qs>>

Next ==
    \/ \E q \in KeyUniverse : CallGetID(q)
    \/ \E q \in KeyUniverse : CallGet(q)
    \/ \E q \in KeyUniverse : CallRangeGet(q)
    \/ \E q \in KeyUniverse : CallSearch(q)
    \/ CallMarshal
    \/ \E buf \in UnmarshalBufs : CallUnmarshal(buf)
    \/ CallReset
    \/ Return

Spec == Init /\ [][Next]_vars

\* the fields F of a result
Fields(r, F) == TheOne({[f \in F |-> x[f]] : x \in {r}})

----------------------------------------------------------------------------
(* Concurrent readers.  Each reader makes one call of GetID or searchID     *)
(* (Get is GetID and RangeGet and Search are searchID, each followed by     *)
(* getLeaf); a step of a reader is the start of its call, one iteration of  *)
(* the descent loop, or what follows the loop, and the steps of the readers *)
(* interleave.  A reader holds the local variables of its call (eqID, i,    *)
(* lID, rID) and its querySession is the record it allocated.               *)

\* (mutant) one querySession record is shared by all calls
SessionOf_shared(r) == "r1"

\* the querySession of a call: the record the call allocated itself
SessionOf(r) == r

\* the indexes the readers share: built in filter mode or in complete mode
ConcOpts == {o \in Opts : o.Short /\ ~o.Big /\ o.InnerPrefix = o.LeafPrefix}

\* the byte strings their keys and queries are drawn from: "a", "ab", "abq",
\* "b", "qa"
ConcUniverse == {<<97>>, <<97, 98>>, <<97, 98, 113>>, <<98>>, <<113, 97>>}

ConcInit ==
    /\ keys \in {SortKeys(S) : S \in {T \in SUBSET ConcUniverse : Cardinality(T) = MaxKeys}}
               \cup {<<>>}
    /\ opt \in ConcOpts
    /\ st = NewSlimTrie(keys, opt)
    /\ res = Idle
    /\ rd = [r \in Readers |-> IdleReader]
    /\ qs = [r \in Readers |-> NewSession(<<>>)]

\* the call starts: the nil check, the locals and the session
ConcCall(r, op, key) ==
    /\ rd[r].pc = "idle"
    /\ IF st.inner.NodeTypeBM.nil
       THEN /\ rd' = [rd EXCEPT ![r] =
                        [pc |-> "done", op |-> op, key |-> key,
                         out |-> IF op = "GetID" THEN [id |-> -1, panic |-> NoPanic]
                                 ELSE [lID |-> -1, eqID |-> -1, rID |-> -1,
                                       panic |-> NoPanic]]]
            /\ UNCHANGED qs
       ELSE /\ rd' = [rd EXCEPT ![r] =
                        [pc |-> "loop", op |-> op, key |-> key,
                         lID |-> -1, eqID |-> 0, rID |-> -1, i |-> 0,
                         done |-> "continue", atLeaf |-> FALSE, lc |-> NoChild]]
            /\ qs' = [qs EXCEPT ![SessionOf(r)] = NewSession(key)]
    /\ UNCHANGED <<keys, opt, st, res>>

\* one iteration of the loop of the call
ConcIterate(r) ==
    /\ rd[r].pc = "loop"
    /\ \E s \in {IF rd[r].op = "GetID"
                 THEN GetIDStep(st, rd[r].eqID, rd[r].i, qs[SessionOf(r)])
                      @@ [lID |-> -1, rID |-> -1, atLeaf |-> FALSE]
                 ELSE searchStep(st, rd[r].lID, rd[r].eqID, rd[r].rID, rd[r].i,
                                 qs[SessionOf(r)])} :
          /\ rd' = [rd EXCEPT ![r] =
                      [@ EXCEPT !.pc = IF s.done = "continue" THEN "loop" ELSE "tail",
                                !.lID = s.lID, !.eqID = s.eqID, !.rID = s.rID,
                                !.i = s.i, !.done = s.done, !.atLeaf = s.atLeaf,
                                !.lc = s.lc]]
          /\ qs' = [qs EXCEPT ![SessionOf(r)] = s.qr]
    /\ UNCHANGED <<keys, opt, st, res>>

\* what follows the loop, and the return
ConcReturn(r) ==
    /\ rd[r].pc = "tail"
    /\ \E w \in {[done |-> rd[r].done, lID |-> rd[r].lID, eqID |-> rd[r].eqID,
                  rID |-> rd[r].rID, i |-> rd[r].i, atLeaf |-> rd[r].atLeaf,
                  qr |-> qs[SessionOf(r)]]} :
          rd' = [rd EXCEPT ![r] =
                   [pc |-> "done", op |-> rd[r].op, key |-> rd[r].key,
                    out |-> IF rd[r].op = "GetID"
                            THEN Fields(GetIDTail(st, w), {"id", "panic"})
                            ELSE Fields(searchIDTail(st, rd[r].key, w),
                                        {"lID", "eqID", "rID", "panic"})]]
    /\ UNCHANGED <<keys, opt, st, res, qs>>

ConcNext ==
    \E r \in Readers :
        \/ \E op \in {"GetID", "searchID"} : \E q \in ConcUniverse : ConcCall(r, op, q)
        \/ ConcIterate(r)
        \/ ConcReturn(r)

SpecConc == ConcInit /\ [][ConcNext]_vars

----------------------------------------------------------------------------
(* Indexes with leaf prefixes.  Unmarshal loads whatever a writer packed:   *)
(* besides the data NewSlimTrie packs, which stores a prefix only for a     *)
(* leaf with a non-empty key tail, the data of a writer that stores one for *)
(* every leaf, of zero length where the tail is empty.                      *)

\* the packed data with a prefix present for every leaf
EveryLeafPrefixed(ns) ==
    LET lp == ns.LeafPrefixes
        NL == ns.Leaves.N
    IN [ns EXCEPT !.LeafPrefixes =
          [nil |-> FALSE,
           PresenceBM |-> BM(NL, 0..(NL - 1)),
           Prefixes |-> [u \in 1..NL |->
                           IF BitAt(lp.PresenceBM, u - 1) = 1
                           THEN lp.Prefixes[Rank(lp.PresenceBM, u - 1) + 1]
                           ELSE <<>>]]]

LeafInit ==
    /\ keys \in {SortKeys(S) : S \in {T \in SUBSET KeyUniverse :
                                        Cardinality(T) \in 1..MaxKeys}}
    /\ opt \in {o \in Opts : o.LeafPrefix}
    /\ \E every \in BOOLEAN :
          \E ns \in {BuildSlim(keys, opt)} :
             st = Unmarshal(Reset(NewSlimTrie(<<>>, opt)),
                            Buf(TRUE, slimtrieVersion,
                                [kind |-> "slim",
                                 fields |-> ProtoEncode(IF every THEN EveryLeafPrefixed(ns)
                                                        ELSE ns)])).st
    /\ res = Idle
    /\ rd = [r \in Readers |-> IdleReader]
    /\ qs = [r \in Readers |-> NewSession(<<>>)]

LeafNext ==
    \/ \E q \in KeyUniverse : CallGetID(q)
    \/ \E q \in KeyUniverse : CallSearch(q)
    \/ Return

SpecLeaf == LeafInit /\ [][LeafNext]_vars

----------------------------------------------------------------------------
(* The extraction of a short node, on packed inner nodes of two words: the  *)
(* bits set are drawn near the end of the first word, and so is the         *)
(* position the node is read from.                                          *)

ShortWindow == (64 - MaxShortSpan)..(64 + MaxShortSpan - 1)

ShortInit ==
    /\ keys = <<>>
    /\ opt \in {o \in Opts : o.Short /\ ~o.Big /\ ~o.InnerPrefix /\ ~o.LeafPrefix}
    /\ \E ones \in SUBSET ShortWindow :
          \E ns \in {[EmptySlim EXCEPT !.Inners = BM(128, ones), !.ShortSize = ShortSize]} :
             st = [inner |-> ns, vars |-> InitVars(ns)]
    /\ res = Idle
    /\ rd = [r \in Readers |-> IdleReader]
    /\ qs = [r \in Readers |-> NewSession(<<>>)]

\* getNode reads the code of the short node at [from, from + ShortSize)
ReadShort(from) ==
    /\ res = Idle
    /\ res' = [op |-> "ShortCode", from |-> from,
               out |-> ShortCode(st, from, from + st.inner.ShortSize)]
    /\ UNCHANGED <<keys, opt, st, rd, qs>>

ShortNext ==
    \/ \E from \in (64 - MaxShortSpan)..64 : ReadShort(from)
    \/ Return

SpecShort == ShortInit /\ [][ShortNext]_vars

----------------------------------------------------------------------------
(* Properties *)

\* position_of(k): the position of a key in the sorted key list; V[j] = j
PositionOf(k) == IndexOf(keys, k)

IsQuery == res.op \in {"GetID", "Get", "RangeGet", "Search"}

\* the value V[j], and nil
Val(j) == <<j>>
NilVal == <<>>

\* C1: for every key k of the key list the index was built from, in every
\* build mode, Get(k) returns found = true and the value V[position_of(k)].
C1_GetFindsEveryKey ==
    (res.op = "Get" /\ res.key \in Range(keys))
        => (res.out.found /\ res.out.val = Val(PositionOf(res.key)))

\* a Get of the second of several keys on a filter-mode index (no prefixes
\* stored) found it
C1_Witness ==
    /\ res.op = "Get" /\ Len(keys) >= 2 /\ res.key = keys[2]
    /\ ~opt.InnerPrefix /\ ~opt.LeafPrefix
    /\ res.out.found /\ res.out.val = Val(2)

\* C2: on an index built in complete mode, Get(q) returns found = false for
\* every q that is not one of the keys.
C2_CompleteNoFalsePositive ==
    (res.op = "Get" /\ Complete(opt) /\ res.key \notin Range(keys)) => ~res.out.found

\* a Get of an absent key on a complete index descended to a leaf and was
\* rejected there
C2_Witness ==
    /\ res.op = "Get" /\ Complete(opt) /\ res.key \notin Range(keys)
    /\ Len(keys) >= 2 /\ res.out.id.atLeaf /\ ~res.out.found

\* C3: for every key k of the key list, Search(k) returns (l, eq, r) with
\* eq = V[position_of(k)], l = V[position_of(k) - 1] (nil for the first key)
\* and r = V[position_of(k) + 1] (nil for the last key).
C3_SearchNeighbours ==
    (res.op = "Search" /\ res.key \in Range(keys))
        => LET p == PositionOf(res.key)
           IN /\ res.out.eqVal = Val(p)
              /\ res.out.lVal = (IF p = 1 THEN NilVal ELSE Val(p - 1))
              /\ res.out.rVal = (IF p = Len(keys) THEN NilVal ELSE Val(p + 1))

\* a Search of a key with a neighbour on each side returned all three
C3_Witness ==
    /\ res.op = "Search" /\ Len(keys) >= 3 /\ res.key = keys[2]
    /\ res.out.lVal = Val(1) /\ res.out.eqVal = Val(2) /\ res.out.rVal = Val(3)

\* the position of the greatest key <= q
Predecessor(q) ==
    LET le == {j \in 1..Len(keys) : ~KeyLess(q, keys[j])}
    IN CHOOSE j \in le : \A k \in le : k <= j

InKeyRange(q) ==
    Len(keys) > 0 /\ ~KeyLess(q, keys[1]) /\ ~KeyLess(keys[Len(keys)], q)

\* C4 as stated: for any q with K[0] <= q <= K[last], in or out of K,
\* RangeGet(q) returns found = true and V[max {j : K[j] <= q}].
C4_RangeGetPredecessor ==
    (res.op = "RangeGet" /\ InKeyRange(res.key))
        => (res.out.found /\ res.out.val = Val(Predecessor(res.key)))

\* C5 as stated: for any q strictly smaller than K[0], RangeGet(q) returns
\* (nil, false), searchID giving eqID = -1 and lID = -1.
C5_RangeGetBelowFirst ==
    (res.op = "RangeGet" /\ Len(keys) > 0 /\ KeyLess(res.key, keys[1]))
        => /\ ~res.out.found /\ res.out.val = NilVal
           /\ res.out.ids.eqID = -1 /\ res.out.ids.lID = -1

\* C4 amended: on an index built in complete mode, for any q with
\* K[0] <= q <= K[last], RangeGet(q) returns found = true and
\* V[max {j : K[j] <= q}]; in every build mode RangeGet(k) returns
\* found = true and V[position_of(k)] for k in K.
C4_RangeGetPredecessorComplete ==
    /\ (res.op = "RangeGet" /\ Complete(opt) /\ InKeyRange(res.key))
          => (res.out.found /\ res.out.val = Val(Predecessor(res.key)))
    /\ (res.op = "RangeGet" /\ res.key \in Range(keys))
          => (res.out.found /\ res.out.val = Val(PositionOf(res.key)))

\* a RangeGet of an absent key between two keys of a complete index returned
\* the value of the key before it
C4_Witness ==
    /\ res.op = "RangeGet" /\ Complete(opt) /\ InKeyRange(res.key)
    /\ res.key \notin Range(keys) /\ Predecessor(res.key) >= 2
    /\ res.out.found /\ res.out.val = Val(Predecessor(res.key))

\* C5 amended: on an index built in complete mode, for any q strictly smaller
\* than K[0], RangeGet(q) returns (nil, false), searchID giving eqID = -1 and
\* lID = -1.
C5_RangeGetBelowFirstComplete ==
    (res.op = "RangeGet" /\ Complete(opt) /\ Len(keys) > 0 /\ KeyLess(res.key, keys[1]))
        => /\ ~res.out.found /\ res.out.val = NilVal
           /\ res.out.ids.eqID = -1 /\ res.out.ids.lID = -1

\* a RangeGet of a key below the first of several keys of a complete index,
\* sharing its first byte with it, found nothing
C5_Witness ==
    /\ res.op = "RangeGet" /\ Complete(opt) /\ Len(keys) >= 2
    /\ KeyLess(res.key, keys[1]) /\ res.key # <<>> /\ res.key[1] = keys[1][1]
    /\ ~res.out.found /\ res.out.ids.rID # -1

\* C6: on an empty trie (NodeTypeBM is nil), for every key, GetID returns -1,
\* Get and RangeGet return (nil, false), Search returns (nil, nil, nil), and
\* no node is decoded.
C6_EmptyTrie ==
    st.inner.NodeTypeBM.nil =>
        /\ res.op = "GetID" => (res.out.id = -1 /\ res.out.decoded = 0 /\ res.out.panic = NoPanic)
        /\ res.op = "Get" => (res.out.val = NilVal /\ ~res.out.found
                               /\ res.out.id.decoded = 0 /\ res.out.panic = NoPanic)
        /\ res.op = "RangeGet" => (res.out.val = NilVal /\ ~res.out.found
                                    /\ res.out.ids.decoded = 0 /\ res.out.panic = NoPanic)
        /\ res.op = "Search" => (res.out.lVal = NilVal /\ res.out.eqVal = NilVal
                                  /\ res.out.rVal = NilVal /\ res.out.ids.decoded = 0
                                  /\ res.out.panic = NoPanic)

\* a Search on an empty trie returned
C6_Witness ==
    st.inner.NodeTypeBM.nil /\ res.op = "Search" /\ res.key # <<>> /\ res.out.eqVal = NilVal

\* C7: on a well-formed index no query panics: getLeaf is handed leaf ids
\* only, and every index into the key and the packed arrays is in range,
\* also when the bit cursor passes the key length.
C7_NoPanic == IsQuery => res.out.panic = NoPanic

\* a RangeGet whose descent pushed the bit cursor past the key length
\* returned without a panic
C7_Witness ==
    /\ res.op = "RangeGet" /\ res.out.ids.cursor > 8 * Len(res.key)
    /\ res.out.panic = NoPanic

\* the node ids of the index, and those of its leaves
NodeIds(t) == 0..Cardinality(t.inner.Inners.ones)

IsLeafId(t, id) == id \in NodeIds(t) /\ id \notin t.inner.NodeTypeBM.ones

\* the value stored at a leaf
LeafValue(t, id) == Val(t.inner.Leaves.Bytes[id - Rank(t.inner.NodeTypeBM, id) + 1])

\* C8: GetID(key) returns -1 or the id of a leaf node, and Get(key) reports
\* found = true exactly when GetID(key) # -1, returning the value stored at
\* that leaf.
C8_GetIDLeafOrNone ==
    /\ res.op = "GetID" => (res.out.id = -1 \/ IsLeafId(st, res.out.id))
    /\ res.op = "Get" =>
          /\ res.out.found <=> GetID(st, res.key).id # -1
          /\ res.out.found =>
                /\ IsLeafId(st, GetID(st, res.key).id)
                /\ res.out.val = LeafValue(st, GetID(st, res.key).id)

\* a Get found a key at a leaf with id above 1
C8_Witness ==
    res.op = "Get" /\ res.out.found /\ res.out.id.id > 1 /\ IsLeafId(st, res.out.id.id)

\* what a caller sees of the four queries of a key
Answers(t, q) ==
    <<Fields(GetID(t, q), {"id", "panic"}),
      Fields(Get(t, q), {"val", "found", "panic"}),
      Fields(RangeGet(t, q), {"val", "found", "panic"}),
      Fields(Search(t, q), {"lVal", "eqVal", "rVal", "panic"})>>

\* the answers of two tries to every query are the same
SameAnswers(a, b) == \A q \in KeyUniverse : Answers(a, q) = Answers(b, q)

C10_IncompatibleRejected ==
    (res.op = "Unmarshal" /\ res.buf.header.ok /\ ~IsCompatible(res.buf.header.version))
        => /\ res.out.err = ErrIncompatible
           /\ ~res.out.decoded
           /\ st.inner = EmptySlim

\* the data of a non-empty index with a newer minor version was refused
C10_Witness ==
    /\ res.op = "Unmarshal" /\ res.buf.header.ok
    /\ res.buf.header.version = Version(0, 6, 0)
    /\ res.buf.body.kind = "slim" /\ res.buf.body.fields # <<>>
    /\ res.out.err = ErrIncompatible

\* C11: queries never write the shared index: under any interleaving of the
\* steps of concurrent queries on one instance, the index stays as it was
\* built, and each query returns the same result as when it runs alone.
C11_ReadersIndependent ==
    /\ [][st' = st]_vars
    /\ [](\A r \in Readers :
            rd[r].pc = "done" =>
                rd[r].out = IF rd[r].op = "GetID"
                            THEN Fields(GetID(st, rd[r].key), {"id", "panic"})
                            ELSE Fields(searchID(st, rd[r].key),
                                        {"lID", "eqID", "rID", "panic"}))

\* a GetID returned a leaf id after another reader's searchID of another key
\* had started and was still in its loop
C11_Witness ==
    /\ rd["r1"].pc = "done" /\ rd["r1"].op = "GetID" /\ rd["r1"].out.id > 0
    /\ rd["r2"].pc = "loop" /\ rd["r2"].op = "searchID" /\ rd["r2"].key # rd["r1"].key
    /\ rd["r2"].eqID > 0

\* C12 as stated: in child resolution, with (leftChildOrdinal, hasChild) the
\* pair returned by getLeftChildID, the NodeId of the matched child the
\* descent moves to is leftChildOrdinal + hasChild + 1.
C12_ChildIdPlusOne ==
    \A r \in Readers :
        (rd[r].pc \in {"loop", "tail"} /\ rd[r].lc.has = 1)
            => rd[r].eqID = rd[r].lc.id + rd[r].lc.has + 1

\* C12 amended: the NodeId of the matched child the descent moves to is
\* leftChildOrdinal + hasChild, the rank counting the bits before the label
\* bit: the bit of the first child of the root has no bit before it and the
\* id of that child is 1.  It is the id of a node of the index.
C12_ChildId ==
    \A r \in Readers :
        (rd[r].pc \in {"loop", "tail"} /\ rd[r].lc.has = 1)
            => /\ rd[r].eqID = rd[r].lc.id + rd[r].lc.has
               /\ rd[r].eqID \in 1..Cardinality(st.inner.Inners.ones)

\* a searchID moved to a child that has two siblings before it
C12_Witness ==
    /\ rd["r1"].pc = "loop" /\ rd["r1"].op = "searchID"
    /\ rd["r1"].lc.has = 1 /\ rd["r1"].lc.id = 2 /\ rd["r1"].eqID = 3

\* C13 as stated: whenever the descent of GetID or searchID reaches a leaf,
\* the bit cursor i is byte-aligned (i & 7 = 0).
C13_LeafByteAligned ==
    /\ (res.op = "GetID" /\ res.out.atLeaf) => (res.out.cursor % 8) = 0
    /\ (res.op \in {"RangeGet", "Search"} /\ res.out.ids.atLeaf)
          => (res.out.ids.cursor % 8) = 0

\* the prefix stored for a leaf: [hasLeafPrefix, leafPrefix]
StoredLeafPrefix(t, id) ==
    Fields(getLeafPrefix(t, id, NewSession(<<>>)), {"hasLeafPrefix", "leafPrefix"})

\* C13 amended: whenever the descent of GetID or searchID reaches a leaf, the
\* bit cursor i is aligned to a 4-bit label word (i & 3 = 0), not always to a
\* byte; the key tail key[i>>3:] starts at the byte that holds bit i, and a
\* leaf id GetID returns with i < l on an index with leaf prefixes is that of
\* a leaf whose stored prefix is byte-equal to this tail, so that a stored
\* key is found also when its leaf is reached inside a byte.
C13_LeafWordAligned ==
    /\ (res.op = "GetID" /\ res.out.atLeaf) => (res.out.cursor % 4) = 0
    /\ (res.op \in {"RangeGet", "Search"} /\ res.out.ids.atLeaf)
          => (res.out.ids.cursor % 4) = 0
    /\ (res.op = "GetID" /\ res.out.atLeaf /\ res.out.id # -1
        /\ ~st.inner.LeafPrefixes.nil /\ res.out.cursor < 8 * Len(res.key))
          => StoredLeafPrefix(st, res.out.id)
               = [hasLeafPrefix |-> TRUE,
                  leafPrefix |-> KeyTail(res.key, res.out.cursor \div 8)]
    /\ (res.op = "GetID" /\ res.key \in Range(keys)) => res.out.id # -1

\* a GetID reached the leaf of a stored key with the cursor inside a byte, on
\* an index with leaf prefixes, and the tail compared began with that byte
C13_Witness ==
    /\ res.op = "GetID" /\ res.out.atLeaf /\ (res.out.cursor % 8) = 4
    /\ res.key \in Range(keys) /\ ~st.inner.LeafPrefixes.nil /\ res.out.id # -1
    /\ StoredLeafPrefix(st, res.out.id).leafPrefix = res.key

\* the leaves below a node: a leaf itself, or the leaves below the children
\* of an inner node, whose ids are those of the 1-bits of its bitmap
RECURSIVE SubtreeLeaves(_, _)
SubtreeLeaves(t, id) ==
    LET Below(q) ==
            IF q.isInner = 0 THEN {id}
            ELSE UNION {SubtreeLeaves(t, c) :
                          c \in (Rank(t.inner.Inners, q.from) + 1)..Rank(t.inner.Inners, q.to)}
    IN Below(getNode(t, id, NewSession(<<>>)))

\* the positions in the key list of the keys below a node
KeysBelow(t, id) == {LeafValue(t, lf)[1] : lf \in SubtreeLeaves(t, id)}

\* the outcome of the loop of searchID for the key of the pending result
\* when the loop was left because a length-only prefix moved the cursor past
\* the key: its rID is the node with that prefix
Overrun(P(_)) ==
    /\ res.op \in {"RangeGet", "Search"}
    /\ ~st.inner.NodeTypeBM.nil
    /\ ~st.inner.InnerPrefixes.PositionBM
    /\ res.out.ids.cursor > 8 * Len(res.key)
    => P(searchLoop(st, -1, 0, -1, 0, NewSession(res.key)))

\* C14 as stated: in searchID, when an inner node carries a length-only
\* prefix and adding its bit length makes the cursor i exceed the key bit
\* length l, every indexed key in that node's subtree is strictly greater
\* than the query key: searchID returns eqID = -1 and rID = the leftmost
\* leaf of that node, and no key equal to the query exists below that node.
C14_OverrunSubtreeGreater ==
    Overrun(LAMBDA w :
        /\ res.out.ids.eqID = -1
        /\ LeafValue(st, res.out.ids.rID)[1] \in KeysBelow(st, w.rID)
        /\ \A p \in KeysBelow(st, w.rID) :
              /\ LeafValue(st, res.out.ids.rID)[1] <= p
              /\ keys[p] # res.key
              /\ KeyLess(res.key, keys[p]))

\* C14 amended: in that case searchID returns eqID = -1 and rID = the
\* leftmost leaf of that node, and every indexed key below that node is
\* longer than the query, so that none is equal to it.
C14_OverrunRightNeighbour ==
    Overrun(LAMBDA w :
        /\ res.out.ids.eqID = -1
        /\ LeafValue(st, res.out.ids.rID)[1] \in KeysBelow(st, w.rID)
        /\ \A p \in KeysBelow(st, w.rID) :
              /\ LeafValue(st, res.out.ids.rID)[1] <= p
              /\ Len(keys[p]) > Len(res.key))

\* a Search of a key shorter than the length-only prefix of a node with two
\* leaves below it returned the first of them as the right neighbour
C14_Witness ==
    /\ res.op = "Search" /\ res.out.ids.cursor > 8 * Len(res.key)
    /\ ~st.inner.NodeTypeBM.nil /\ ~st.inner.InnerPrefixes.PositionBM
    /\ res.key # <<>> /\ res.out.rVal # NilVal
    /\ Cardinality(KeysBelow(st, searchLoop(st, -1, 0, -1, 0, NewSession(res.key)).rID)) >= 2
    /\ KeyLess(res.key, keys[res.out.rVal[1]])

\* the key tail at the leaf the loop of GetID reached is byte-equal to the
\* prefix stored for that leaf, taken as empty when it has none
TailIsLeafPrefix(t, key, w) ==
    \E sp \in {StoredLeafPrefix(t, w.eqID)} :
        KeyTail(key, w.i \div 8) = (IF sp.hasLeafPrefix THEN sp.leafPrefix ELSE <<>>)

C16_ShortExtraction ==
    res.op = "ShortCode" =>
        /\ res.out = {b \in 0..(ShortSize - 1) : (res.from + b) \in st.inner.Inners.ones}
        /\ WordValue(res.out) < Pow2(ShortSize)
        /\ SumSeq([b \in 1..64 |-> IF (b - 1) \in res.out THEN Pow2(b - 1) ELSE 0])
             = WordValue(res.out)

\* a code was read whose first two bits are the last two of a word and whose
\* other two are the first two of the next word, with more bits set after it
C16_Witness ==
    /\ res.op = "ShortCode" /\ res.from = 62 /\ res.out = {0, 1, 2, 3}
    /\ 66 \in st.inner.Inners.ones /\ 61 \in st.inner.Inners.ones

\* the number of nodes on the longest path from a node down to a leaf
RECURSIVE Height(_, _)
Height(t, id) ==
    LET Highest(S) == CHOOSE h \in S : \A g \in S : g <= h
        Below(q) ==
            IF q.isInner = 0 THEN 1
            ELSE 1 + Highest({Height(t, c) :
                                c \in (Rank(t.inner.Inners, q.from) + 1)
                                      ..Rank(t.inner.Inners, q.to)})
    IN Below(getNode(t, id, NewSession(<<>>)))

\* keyBitLen / wordSize, with the smaller of the two word sizes
KeyWords(key) == (8 * Len(key)) \div wordSize

\* C17 as stated: the number of nodes a GetID or searchID call decodes is
\* bounded by keyBitLen / wordSize plus a constant, and this bound also
\* covers the leftMost/rightMost descents searchID runs after the loop.  The
\* constant is that of the loop (the node the loop ends at) and one node for
\* each of the two descents.
C17_DecodedBoundedByKey ==
    /\ res.op = "GetID" => res.out.decoded <= KeyWords(res.key) + 1
    /\ res.op \in {"RangeGet", "Search"} => res.out.ids.decoded <= KeyWords(res.key) + 3

\* C17 amended: every call returns; GetID and the loop of searchID decode at
\* most keyBitLen / wordSize + 1 nodes; each of the leftMost/rightMost
\* descents decodes at most one node per level of the index, so that
\* searchID decodes at most keyBitLen / wordSize + 1 + 2 * height nodes.
C17_DecodedBounded ==
    /\ res.op = "GetID" => res.out.decoded <= KeyWords(res.key) + 1
    /\ (res.op \in {"RangeGet", "Search"} /\ ~st.inner.NodeTypeBM.nil)
          => /\ searchLoop(st, -1, 0, -1, 0, NewSession(res.key)).qr.decoded
                  <= KeyWords(res.key) + 1
             /\ res.out.ids.decoded <= KeyWords(res.key) + 1 + 2 * Height(st, 0)

\* a Search of the empty key decoded four nodes: the root in the loop and
\* three on the way down to the smallest leaf
C17_Witness ==
    /\ res.op = "Search" /\ res.key = <<>> /\ res.out.ids.decoded = 4
    /\ Height(st, 0) = 3 /\ res.out.rVal = Val(1)

\* the queue of the conversion of the arrays of a buffer, with the inner
\* nodes and leaves it handed to the creator
Converted(buf) ==
    before000510Loop(buf.body.ch, buf.body.steps, buf.body.lvs,
                     [queue |-> <<eltType(0, getStepBefore000510(buf.body.steps, 0), FALSE)>>,
                      newid |-> 0, nextOldID |-> 1, inners |-> <<>>, leaves |-> <<>>])

\* the new id of the first child of the k-th rebuilt inner node, when new
\* ids are breadth-first
FirstChild(c, k) == 1 + SumSeq([u \in 1..(k - 1) |-> Cardinality(c.inners[u].bm)])

\* the bits of the label bitmap of a decoded inner node
NodeBits(t, q) ==
    IF q.to - q.from = t.inner.ShortSize THEN q.bm
    ELSE {b \in 0..(q.to - q.from - 1) : BitAt(t.inner.Inners, q.from + b) = 1}

\* data written before 0.5.10 was converted and loaded
WasConverted ==
    /\ res.op = "Unmarshal" /\ res.buf.body.kind = "arrays"
    /\ res.out.err = NoErr /\ res.out.panic = NoPanic

\* C18: the conversion of a trie written before 0.5.10 assigns new node ids
\* in breadth-first order: the children of each rebuilt inner node occupy
\* consecutive new ids, in the order of the bits of its bitmap, at the ids
\* the loaded index resolves its children to; an old node that was both
\* inner and leaf becomes an inner node with bit 0 set, whose first child is
\* a new leaf-only node with the value of the old node, enqueued before the
\* children of its labels.  The loaded index finds every key with its value.
C18_ConversionBreadthFirst ==
    WasConverted =>
        LET c == Converted(res.buf)
            lvs == res.buf.body.lvs
            ch == res.buf.body.ch
            Kid(n, first, bits, j) ==
                LET e == c.queue[first + j]
                    old == c.queue[n.id + 1].oldid
                IN IF bits[j] = 0
                   THEN /\ j = 1 /\ e.leafOnly /\ e.oldid = old
                        /\ \E lf \in Range(c.leaves) :
                              lf.id = first + j - 1 /\ lf.val = ArrayGet(lvs, old)
                        /\ IsLeafId(st, first) /\ LeafValue(st, first) = Val(ArrayGet(lvs, old))
                   ELSE /\ ~e.leafOnly
                        /\ j > 1 => (~c.queue[first + j - 1].leafOnly
                                        => e.oldid = c.queue[first + j - 1].oldid + 1)
            Inner(n, first, bits) ==
                /\ ~c.queue[n.id + 1].leafOnly
                /\ (0 \in n.bm) <=> (bmhas(lvs.Bitmaps, c.queue[n.id + 1].oldid)
                                        /\ bmhas(ch.Bitmaps, c.queue[n.id + 1].oldid))
                /\ Rank(st.inner.Inners, getNode(st, n.id, NewSession(<<>>)).from) + 1 = first
                /\ NodeBits(st, getNode(st, n.id, NewSession(<<>>))) = n.bm
                /\ \A j \in 1..Len(bits) : Kid(n, first, bits, j)
        IN /\ Len(c.queue) = Len(c.inners) + Len(c.leaves)
           /\ \A k \in 1..Len(c.inners) :
                 Inner(c.inners[k], FirstChild(c, k), SetToSeq(c.inners[k].bm))
           /\ \A j \in 1..Len(keys) :
                 Get(st, keys[j]).found /\ Get(st, keys[j]).val = Val(j)

\* an index with a key that ends at an inner node was converted: the root
\* of the new index has the terminator bit and two more children
C18_Witness ==
    /\ WasConverted /\ Len(keys) = 3
    /\ \E k \in 1..Len(Converted(res.buf).inners) :
          /\ 0 \in Converted(res.buf).inners[k].bm
          /\ Cardinality(Converted(res.buf).inners[k].bm) >= 2
    /\ \E k \in 1..Len(Converted(res.buf).inners) :
          0 \notin Converted(res.buf).inners[k].bm

FindsNothing(t) ==
    \A q \in KeyUniverse :
        /\ GetID(t, q).id = -1 /\ GetID(t, q).panic = NoPanic
        /\ ~Get(t, q).found /\ Get(t, q).val = NilVal
        /\ ~RangeGet(t, q).found /\ RangeGet(t, q).val = NilVal
        /\ Search(t, q).lVal = NilVal /\ Search(t, q).eqVal = NilVal
        /\ Search(t, q).rVal = NilVal /\ Search(t, q).panic = NoPanic

\* C20: Unmarshal does not preserve the receiver on failure: st.inner is
\* replaced by a fresh empty Slim before the header is read, so after
\* Unmarshal returned a header error or ErrIncompatible on a trie that held
\* keys the previous index is gone, and every Get, GetID, RangeGet and Search
\* on that trie returns not found.
C20_FailedUnmarshalEmpties ==
    (/\ res.op = "Unmarshal" /\ res.held > 0
     /\ res.out.err \in {ErrHeader, ErrIncompatible})
        => /\ st.inner = EmptySlim /\ ~res.out.decoded
           /\ FindsNothing(st)

\* a trie of three keys was handed a buffer whose header cannot be read
C20_Witness ==
    /\ res.op = "Unmarshal" /\ res.held = MaxKeys
    /\ ~res.buf.header.ok /\ res.out.err = ErrHeader
    /\ st.vars # NilVars /\ st.inner = EmptySlim

====
